---- MODULE Spec2Model ----
(***************************************************************************)
(* A model of the execution core of backtrader: the LineBuffer column      *)
(* (linebuffer.py), the per-bar dispatch of LineIterator / LineActions     *)
(* (lineiterator.py, linebuffer.py) and the per-bar main loop of Cerebro   *)
(* (cerebro.py) over data feeds (feed.py).                                 *)
(*                                                                         *)
(* The specifications share the module and its variables; each leaves     *)
(* the variables of the others at their initial values:                    *)
(*   SpecLB   one LineBuffer under every cursor operation;                 *)
(*   SpecBind two LineBuffers joined by bindings;                          *)
(*   SpecIt   the per-bar dispatch of one LineIterator / LineActions;      *)
(*   Spec     Cerebro._runnext over data feeds and strategies;             *)
(*   SpecFinite  Spec with feeds that end, the loop always going on;       *)
(*   SpecTimer   one Timer (timer.py) under check calls;                   *)
(*   SpecWeek    a Timer with a weekdays mask over consecutive dates;      *)
(*   SpecMask    a Timer with weekdays and monthdays masks, no carry;      *)
(*   SpecClone   a DataClone following its source feed;                    *)
(*   SpecNotif   the notification queue of a feed;                         *)
(*   SpecStop    _runnext and _runonce with runstop() at any moment;       *)
(*   SpecMode    the mode decision of Cerebro.run;                         *)
(*   SpecEngine  Cerebro.runstrategies from start to return;               *)
(*   SpecOps     a line operation or delay, per bar and vectorized;        *)
(*   SpecLoad    AbstractDataBase.load over a source, dates and a filter;  *)
(*   SpecIB      the state machine of IBData._load;                        *)
(*   SpecLive    the simulated live feed and its producer thread.          *)
(***************************************************************************)
EXTENDS Integers, Sequences, FiniteSets, TLC

(***************************************************************************)
(* Bounds of the model.                                                    *)
(***************************************************************************)
MaxLen == 3         \* longest backing array explored
MaxSize == 2        \* largest size argument of forward/backwards/rewind/...
MaxMinPeriod == 2   \* largest minimum period of a line
MaxBindLen == 2     \* longest backing array of the lines joined by a binding
MaxDt == 3          \* latest datetime a data source delivers
NStrats == 2        \* number of strategies of the run
DayLen == 3         \* instants of a day (times of day 0 .. DayLen - 1)
MaxDay == 2         \* last day on which a timer is checked (days 0 .. MaxDay)
MaxRepeat == 4      \* longest repeat interval of a timer, in instants
MaxSame == 1        \* how often check is called again with the same dt
LastWeekDate == 4   \* last date a timer with a weekdays mask is checked on
MaxWeekdays == 1    \* most entries of the weekdays parameter of a timer
MaxIbDt == 2        \* datetimes of the bars an IB store sends
MaxIbMsgs == 2      \* messages an IB store puts on the queues of a feed
MaxLiveBars == 3    \* bars the generator of the simulated live feed gives
MaxMaskDays == 2    \* most entries of weekdays and monthdays of a timer without carry
MonthLen == 3       \* days of a month of the model's calendar
MaxBars == 3        \* most bars of a source feed that has a clone
MaxDlen == 4        \* largest dlen of a DataClone
MaxNotifs == 2      \* most notifications waiting in the queue of a feed
MaxOnceBars == 2    \* most preloaded bars of a vectorized run
MaxExactBars == 2   \* exactbars goes from -MaxExactBars to MaxExactBars
MaxDepth == 2       \* deepest chain of indicators below a strategy
NEngStrats == 2     \* most strategy classes of a run
MaxTicks == 2       \* most passes of the main loop of a run
MaxOpBars == 3      \* most bars of the operand of a line operation
MaxAgo == 2         \* largest delay of a LineDelay, either way

(***************************************************************************)
(* Program constants.                                                      *)
(***************************************************************************)
NAN == 0            \* the default value of a fresh slot
UnBounded == 0
QBuffer == 1
RetTrue == 1        \* next(), load(), _load() returned True
RetFalse == 0       \* ... returned False
RetNone == -1       \* ... returned None
None == 0           \* no datetime

Values == {NAN, 1}
Lines == {1, 2}
Sizes == 1..MaxSize

VARIABLES
    lines,      \* line -> the LineBuffer's fields
    bindings,   \* line -> the list of lines bound to it (self.bindings)
    raised,     \* the exception that ended the last call, or "none"
    refused,    \* line -> whether a set_idx call was ever refused (history)
    lastop,     \* the last call made (history)
    iter,       \* the fields of a LineIterator / LineActions and its calls
    feeds,      \* feed -> the fields of the data feed and of its source
    cheat_on_open,  \* Cerebro parameter cheat_on_open
    pc,         \* the position of Cerebro._runnext
    drets,      \* feed -> what next() returned in the first round
    dts,        \* feed -> the datetime of the bar produced, or None
    dt0,        \* the master datetime
    d0ret,      \* True, None or False
    lastret,    \* whether a _last() call delivered a bar
    strat,      \* index in runstrats of the strategy the loop is at
    event_stop, \* Cerebro._event_stop
    steps,      \* the steps made so far in this pass of the loop (history)
    seen,       \* feed -> the last datetime a strategy saw (history)
    timer,      \* the fields and parameters of a Timer
    tnow,       \* the dt of the last check call
    tsame,      \* how many calls in a row had that dt
    tret,       \* what the last check call returned
    dayhits,    \* calls that returned True on the date of tnow (history)
    sesshits,   \* calls that returned True under the cached session end
    sessfirst,  \* lastwhen of the first of them (history)
    sesseos,    \* the session end they were counted under (history)
    tdays,      \* the dates check was called for (history)
    thitdays,   \* the dates on which a call returned True (history)
    csource,    \* a data feed that has a clone: lines, loader, bars
    cclone,     \* its DataClone: lines, _dlen, _preloading
    cpc,        \* where the run of the two feeds is
    cret,       \* what next() of the two returned in this tick
    nfeed,      \* a feed's notification queue and _laststatus
    ncall,      \* the last call made on that feed (history)
    nsince,     \* entries queued since the feed's last start (history)
    mode,       \* Cerebro's parameters and flags of the mode decision
    eng,        \* Cerebro.runstrategies: flags, strategies, components
    epc,        \* the position of Cerebro.runstrategies
    ops,        \* a line operation or delay, run per bar and vectorized
    ld,         \* a data feed under load(): line, source, dates, stacks
    ib,         \* an IBData feed: its state, its queue and the store
    rt          \* the simulated live feed: queue, producer, main loop

lbVars == <<lines, bindings, raised, refused, lastop>>

itVars == <<iter>>

runVars == <<feeds, cheat_on_open, pc, drets, dts, dt0, d0ret, lastret, strat,
             event_stop, steps, seen>>

tmVars == <<timer, tnow, tsame, tret, dayhits, sesshits, sessfirst, sesseos,
           tdays, thitdays>>

clVars == <<csource, cclone, cpc, cret>>

\* the variables of the line buffers, the dispatch and the main loop, and
\* those of the parts modelled apart from them
coreVars == <<lbVars, itVars, runVars>>

nfVars == <<nfeed, ncall, nsince>>

mdVars == <<mode>>

egVars == <<eng, epc>>

opVars == <<ops>>

ldVars == <<ld>>

ibVars == <<ib>>

rtVars == <<rt>>

extVars == <<tmVars, clVars, nfVars, mdVars, egVars, opVars, ldVars, ibVars,
            rtVars>>

\* what the steps of each of these parts leave alone
notTmVars ==
    <<coreVars, clVars, nfVars, mdVars, egVars, opVars,
      ldVars, ibVars, rtVars>>
notClVars ==
    <<coreVars, tmVars, nfVars, mdVars, egVars, opVars,
      ldVars, ibVars, rtVars>>
notNfVars ==
    <<coreVars, tmVars, clVars, mdVars, egVars, opVars,
      ldVars, ibVars, rtVars>>
notMdVars ==
    <<coreVars, tmVars, clVars, nfVars, egVars, opVars,
      ldVars, ibVars, rtVars>>
notEgVars ==
    <<coreVars, tmVars, clVars, nfVars, mdVars, opVars,
      ldVars, ibVars, rtVars>>
notOpVars ==
    <<coreVars, tmVars, clVars, nfVars, mdVars, egVars,
      ldVars, ibVars, rtVars>>
notLdVars ==
    <<coreVars, tmVars, clVars, nfVars, mdVars, egVars,
      opVars, ibVars, rtVars>>
notIbVars ==
    <<coreVars, tmVars, clVars, nfVars, mdVars, egVars,
      opVars, ldVars, rtVars>>
notRtVars ==
    <<coreVars, tmVars, clVars, nfVars, mdVars, egVars,
      opVars, ldVars, ibVars>>

vars == <<coreVars, extVars>>

(***************************************************************************)
(* Python sequence indexing: index i of a sequence of n elements is valid  *)
(* iff -n <= i < n; a negative index counts from the end.                  *)
(***************************************************************************)
PyIndexOK(arr, i) == (-Len(arr) <= i) /\ (i < Len(arr))

PyPos(arr, i) == IF i < 0 THEN i + Len(arr) + 1 ELSE i + 1

PyAt(arr, i) == arr[PyPos(arr, i)]

PyPut(arr, i, v) == [arr EXCEPT ![PyPos(arr, i)] = v]

(***************************************************************************)
(* LineBuffer                                                              *)
(***************************************************************************)
NewLine(mp) ==
    [mode |-> UnBounded, array |-> <<>>, idx |-> -1, lencount |-> 0,
     extension |-> 0, maxlen |-> 0, extrasize |-> 0, lenmark |-> 0,
     minperiod |-> mp]

SetIdxApplies_notfull(b, force) ==
    (b.mode # QBuffer) \/ force \/ (Len(b.array) < b.maxlen + b.extrasize)

\* set_idx: in QBuffer mode the index is only moved when forced or while it
\* is below lenmark.
SetIdxApplies(b, force) ==
    (b.mode # QBuffer) \/ force \/ (b.idx < b.lenmark)

set_idx(b, idx, force) ==
    IF SetIdxApplies(b, force) THEN [b EXCEPT !.idx = idx] ELSE b

\* array.append: a deque(maxlen=n) that is full drops its leftmost element.
ArrayCap_plus(b) == b.maxlen + b.extrasize + 1

ArrayCap(b) == b.maxlen + b.extrasize

append(b, v) ==
    IF b.mode = QBuffer /\ Len(b.array) >= ArrayCap(b)
    THEN IF ArrayCap(b) = 0 THEN <<>> ELSE Tail(b.array) \o <<v>>
    ELSE b.array \o <<v>>

RECURSIVE appendN(_, _, _)
appendN(b, v, n) ==
    IF n = 0 THEN b
    ELSE appendN([b EXCEPT !.array = append(b, v)], v, n - 1)

len(b) == b.lencount

buflen(b) == Len(b.array) - b.extension

getitem(b, ago) == PyAt(b.array, b.idx + ago)

reset_keeplen(b) ==
    [set_idx([b EXCEPT !.array = <<>>], -1, FALSE) EXCEPT !.extension = 0]

reset(b) ==
    LET c == [b EXCEPT !.array = <<>>, !.lencount = 0]
    IN  [set_idx(c, -1, FALSE) EXCEPT !.extension = 0]

qbuffer(b, extrasize) ==
    reset([b EXCEPT !.mode = QBuffer,
                    !.maxlen = b.minperiod,
                    !.extrasize = extrasize,
                    !.lenmark = b.minperiod - (IF extrasize = 0 THEN 1 ELSE 0)])

\* the fields minbuffer sets before it calls reset()
minbuffer_resized(b, size) ==
    [b EXCEPT !.maxlen = size,
              !.lenmark = size - (IF b.extrasize = 0 THEN 1 ELSE 0)]

minbuffer(b, size) ==
    IF b.mode # QBuffer \/ b.maxlen >= size THEN b
    ELSE reset(minbuffer_resized(b, size))

home_keeplen(b) == set_idx(b, -1, FALSE)

home(b) == [set_idx(b, -1, FALSE) EXCEPT !.lencount = 0]

forward(b, v, size) ==
    LET c == set_idx(b, b.idx + size, FALSE)
    IN  appendN([c EXCEPT !.lencount = b.lencount + size], v, size)

\* backwards: array.pop() on an empty array raises IndexError, after the
\* index and the length have been moved.
backwards_keeplen(b, size, force) ==
    LET c == set_idx(b, b.idx - size, force)
        n == Len(b.array)
    IN  IF n >= size
        THEN [b |-> [c EXCEPT !.array = SubSeq(b.array, 1, n - size)],
              err |-> FALSE]
        ELSE [b |-> [c EXCEPT !.array = <<>>], err |-> TRUE]

backwards(b, size, force) ==
    LET c == set_idx(b, b.idx - size, force)
        d == [c EXCEPT !.lencount = b.lencount - size]
        n == Len(b.array)
    IN  IF n >= size
        THEN [b |-> [d EXCEPT !.array = SubSeq(b.array, 1, n - size)],
              err |-> FALSE]
        ELSE [b |-> [d EXCEPT !.array = <<>>], err |-> TRUE]

\* A slip: the index is moved and the length is not.
rewind_idxonly(b, size) == set_idx(b, b.idx - size, FALSE)

rewind(b, size) ==
    [set_idx(b, b.idx - size, FALSE) EXCEPT !.lencount = b.lencount - size]

advance_idxonly(b, size) == set_idx(b, b.idx + size, FALSE)

advance(b, size) ==
    [set_idx(b, b.idx + size, FALSE) EXCEPT !.lencount = b.lencount + size]

extend(b, v, size) ==
    appendN([b EXCEPT !.extension = b.extension + size], v, size)

updateminperiod(b, mp) ==
    [b EXCEPT !.minperiod = IF mp > b.minperiod THEN mp ELSE b.minperiod]

(***************************************************************************)
(* Item assignment with binding propagation.  ls is the function from      *)
(* lines to their fields, bs the bindings; the result carries the new ls   *)
(* and whether an IndexError ended the call (the writes made before it     *)
(* stay).                                                                  *)
(***************************************************************************)
RECURSIVE setitem(_, _, _, _, _)
RECURSIVE setbindings(_, _, _, _, _)

setbindings(ls, bs, list, ago, v) ==
    IF list = <<>> THEN [ls |-> ls, err |-> FALSE]
    ELSE LET r == setitem(ls, bs, Head(list), ago, v)
         IN  IF r.err THEN r ELSE setbindings(r.ls, bs, Tail(list), ago, v)

\* A slip: the value is stored and the bindings are skipped.
setitem_nobindings(ls, bs, l, ago, v) ==
    IF ~PyIndexOK(ls[l].array, ls[l].idx + ago)
    THEN [ls |-> ls, err |-> TRUE]
    ELSE [ls |-> [ls EXCEPT ![l].array = PyPut(@, ls[l].idx + ago, v)],
          err |-> FALSE]

setitem(ls, bs, l, ago, v) ==
    IF ~PyIndexOK(ls[l].array, ls[l].idx + ago)
    THEN [ls |-> ls, err |-> TRUE]
    ELSE setbindings([ls EXCEPT ![l].array = PyPut(@, ls[l].idx + ago, v)],
                     bs, bs[l], ago, v)

\* LineBuffer.set(value, ago): the same store, then binding[ago] = value.
set(ls, bs, l, v, ago) ==
    IF ~PyIndexOK(ls[l].array, ls[l].idx + ago)
    THEN [ls |-> ls, err |-> TRUE]
    ELSE setbindings([ls EXCEPT ![l].array = PyPut(@, ls[l].idx + ago, v)],
                     bs, bs[l], ago, v)

(***************************************************************************)
(* Actions on LineBuffers.  lastop keeps the arguments of the last         *)
(* assignment, made with item assignment or with set().                    *)
(***************************************************************************)
Op(name, l, ago, v) == [op |-> name, line |-> l, ago |-> ago, v |-> v]

Agos == -1..1

NoOp == Op("none", 1, 0, NAN)

Fits(b, size, cap) ==
    /\ b.lencount + size <= cap + 1
    /\ (b.mode = UnBounded => Len(b.array) + size <= cap)

Moved(l, b, force, name) ==
    /\ lines' = [lines EXCEPT ![l] = b]
    /\ refused' = [refused EXCEPT ![l] = @ \/ ~SetIdxApplies(lines[l], force)]
    /\ lastop' = Op(name, l, 0, NAN)
    /\ UNCHANGED <<itVars, runVars, extVars>>
    /\ UNCHANGED bindings

ForwardBy(l, vs, sizes, cap) ==
    \E v \in vs, size \in sizes :
        /\ raised = "none"
        /\ Fits(lines[l], size, cap)
        /\ Moved(l, forward(lines[l], v, size), FALSE, "forward")
        /\ UNCHANGED raised

Forward(l) == ForwardBy(l, Values, Sizes, MaxLen)

Backwards(l) ==
    \E size \in Sizes, force \in BOOLEAN :
        /\ raised = "none"
        /\ lines[l].lencount >= size
        /\ LET r == backwards(lines[l], size, force)
           IN  /\ Moved(l, r.b, force, "backwards")
               /\ raised' = IF r.err THEN "IndexError" ELSE "none"

RewindBy(l, sizes) ==
    \E size \in sizes :
        /\ raised = "none"
        /\ lines[l].lencount >= size
        /\ Moved(l, rewind(lines[l], size), FALSE, "rewind")
        /\ UNCHANGED raised

Rewind(l) == RewindBy(l, Sizes)

Advance(l) ==
    \E size \in Sizes :
        /\ raised = "none"
        /\ lines[l].lencount + size <= MaxLen + 1
        /\ Moved(l, advance(lines[l], size), FALSE, "advance")
        /\ UNCHANGED raised

Extend(l) ==
    \E v \in Values, size \in Sizes :
        /\ raised = "none"
        /\ lines[l].extension + size <= MaxSize
        /\ lines[l].mode = UnBounded => Len(lines[l].array) + size <= MaxLen
        /\ lines' = [lines EXCEPT ![l] = extend(@, v, size)]
        /\ lastop' = NoOp
        /\ UNCHANGED <<itVars, runVars, extVars>>
        /\ UNCHANGED <<bindings, raised, refused>>

Home(l) ==
    /\ raised = "none"
    /\ Moved(l, home(lines[l]), FALSE, "home")
    /\ UNCHANGED raised

Reset(l) ==
    /\ raised = "none"
    /\ Moved(l, reset(lines[l]), FALSE, "reset")
    /\ UNCHANGED raised

\* qbuffer is called while the run is set up, on lines that hold nothing.
Fresh(b) ==
    b.mode = UnBounded /\ b.array = <<>> /\ b.idx = -1 /\ b.lencount = 0

QBufferOn(l) ==
    \E extrasize \in {0, 1} :
        /\ raised = "none"
        /\ Fresh(lines[l])
        /\ Moved(l, qbuffer(lines[l], extrasize), FALSE, "qbuffer")
        /\ UNCHANGED raised

\* minbuffer is called by qbuffer() of the LineActions that read the line,
\* with their minimum period, while the run is set up.
MinBuffer(l) ==
    \E size \in 1..MaxMinPeriod :
        /\ raised = "none"
        /\ lines[l].mode = QBuffer
        /\ lines[l].array = <<>> /\ lines[l].idx = -1 /\ lines[l].lencount = 0
        /\ lines[l].maxlen < size
        /\ Moved(l, minbuffer(lines[l], size), FALSE, "minbuffer")
        /\ UNCHANGED raised

SetItem(l) ==
    \E ago \in Agos, v \in Values :
        /\ raised = "none"
        /\ LET r == setitem(lines, bindings, l, ago, v)
           IN  /\ lines' = r.ls
               /\ raised' = IF r.err THEN "IndexError" ELSE "none"
        /\ lastop' = Op("setitem", l, ago, v)
        /\ UNCHANGED <<itVars, runVars, extVars>>
        /\ UNCHANGED <<bindings, refused>>

Set(l) ==
    \E ago \in Agos, v \in Values :
        /\ raised = "none"
        /\ LET r == set(lines, bindings, l, v, ago)
           IN  /\ lines' = r.ls
               /\ raised' = IF r.err THEN "IndexError" ELSE "none"
        /\ lastop' = Op("setitem", l, ago, v)
        /\ UNCHANGED <<itVars, runVars, extVars>>
        /\ UNCHANGED <<bindings, refused>>

\* addbinding(binding): the list grows, the bound line's minimum period is
\* raised.  Only acyclic bindings are explored (a cycle never returns).
AddBinding(l, t) ==
    /\ raised = "none"
    /\ l # t
    /\ bindings[t] = <<>>
    /\ Len(bindings[l]) = 0
    /\ bindings' = [bindings EXCEPT ![l] = Append(@, t)]
    /\ lines' = [lines EXCEPT ![t] = updateminperiod(@, lines[l].minperiod)]
    /\ lastop' = NoOp
    /\ UNCHANGED <<itVars, runVars, extVars>>
    /\ UNCHANGED <<raised, refused>>

\* After construction: line w has any minimum period up to the bound, the
\* other line the default one (_minperiod = 1).
InitLines(w) ==
    /\ \E mp \in 1..MaxMinPeriod :
          lines = [l \in Lines |-> IF l = w THEN NewLine(mp) ELSE NewLine(1)]
    /\ bindings = [l \in Lines |-> <<>>]
    /\ raised = "none"
    /\ refused = [l \in Lines |-> FALSE]
    /\ lastop = NoOp

(***************************************************************************)
(* Per-bar dispatch of LineIterator._next and LineActions._next.  Line 1   *)
(* is the clock of the iterator (a line of a data feed), line 2 the        *)
(* iterator's own line; its _minperiod is the minperiod of line 2.  The    *)
(* result of a dispatch is the list of the methods called, in order.       *)
(***************************************************************************)
Kinds == {"LineIterator", "LineActions"}

NewIter(kind, overridden) ==
    [kind |-> kind,
     overridden |-> overridden,  \* whether the class defines its own nextstart
     phase |-> "data",           \* "data": the feed moves next, "iter": _next
     ran |-> FALSE,              \* whether _next has been called yet
     calls |-> <<>>,             \* methods called by the last _next
     nextstarts |-> 0]           \* nextstart calls so far: 0, 1, 2 = several

\* LineIterator.nextstart calls next unless a subclass overrides it.
nextstart(overridden) ==
    IF overridden THEN <<"nextstart">> ELSE <<"nextstart", "next">>

clk_update_always(b, clock_len) == forward(b, NAN, 1)

\* LineIterator._clk_update: if clock_len != len(self): self.forward()
clk_update(b, clock_len) ==
    IF clock_len # len(b) THEN forward(b, NAN, 1) ELSE b

LineActions_forward(b, clock_len) ==
    IF clock_len > len(b) THEN forward(b, NAN, 1) ELSE b

LineIterator_dispatch_early(clock_len, minperiod, overridden) ==
    IF clock_len >= minperiod THEN <<"next">> ELSE <<"prenext">>

LineIterator_dispatch(clock_len, minperiod, overridden) ==
    IF clock_len > minperiod THEN <<"next">>
    ELSE IF clock_len = minperiod THEN nextstart(overridden)
    ELSE IF clock_len # 0 THEN <<"prenext">>
    ELSE <<>>

LineActions_dispatch(clock_len, minperiod, overridden) ==
    IF clock_len > minperiod THEN <<"next">>
    ELSE IF clock_len = minperiod THEN nextstart(overridden)
    ELSE <<"prenext">>

Called(calls, name) == \E n \in 1..Len(calls) : calls[n] = name

\* The feed of the clock delivers a bar: next() loads it and returns True.
ClockBar ==
    /\ iter.phase = "data"
    /\ len(lines[1]) < MaxLen
    /\ lines' = [lines EXCEPT ![1] = forward(@, NAN, 1)]
    /\ iter' = [iter EXCEPT !.phase = "iter"]
    /\ UNCHANGED <<bindings, raised, refused, lastop, runVars, extVars>>

\* The feed of the clock delivers nothing in this pass of the loop (its
\* load() undid the forward, or next(datamaster) rewound a bar that is ahead
\* of the master) while another feed does: the length of the clock stays.
ClockNoBar ==
    /\ iter.phase = "data"
    /\ iter' = [iter EXCEPT !.phase = "iter"]
    /\ UNCHANGED <<lbVars, runVars, extVars>>

IterNext ==
    /\ iter.phase = "iter"
    /\ LET clock_len == len(lines[1])
           own == IF iter.kind = "LineIterator"
                  THEN clk_update(lines[2], clock_len)
                  ELSE LineActions_forward(lines[2], clock_len)
           calls == IF iter.kind = "LineIterator"
                    THEN LineIterator_dispatch(clock_len, own.minperiod,
                                               iter.overridden)
                    ELSE LineActions_dispatch(clock_len, own.minperiod,
                                              iter.overridden)
       IN  /\ lines' = [lines EXCEPT ![2] = own]
           /\ iter' = [iter EXCEPT
                         !.phase = "data",
                         !.ran = TRUE,
                         !.calls = calls,
                         !.nextstarts = IF ~Called(calls, "nextstart") THEN @
                                        ELSE IF @ = 0 THEN 1 ELSE 2]
    /\ UNCHANGED <<bindings, raised, refused, lastop, runVars, extVars>>

IterParked == iter = NewIter("LineIterator", FALSE)

(***************************************************************************)
(* DataClone (feed.py).  A feed here has two lines, datetime and one value *)
(* line, each a LineBuffer of its own; bar k of the source has datetime k  *)
(* and value ValueOf(k).  The source has no filters and no from/to dates.  *)
(***************************************************************************)
ValueBase == 10     \* the value of bar k is k + ValueBase, never a datetime

ValueOf(k) == k + ValueBase

NewFeedLines == [dt |-> NewLine(1), val |-> NewLine(1)]

lines_forward(f) ==
    [f EXCEPT !.dt = forward(@, NAN, 1), !.val = forward(@, NAN, 1)]

lines_backwards(f, force) ==
    [f EXCEPT !.dt = backwards(@, 1, force).b, !.val = backwards(@, 1, force).b]

lines_advance(f) == [f EXCEPT !.dt = advance(@, 1), !.val = advance(@, 1)]

lines_rewind(f) == [f EXCEPT !.dt = rewind(@, 1), !.val = rewind(@, 1)]

lines_home(f) == [f EXCEPT !.dt = home(@), !.val = home(@)]

\* line[0] = value on a line without bindings
put0(b, v) == [b EXCEPT !.array = PyPut(b.array, b.idx, v)]

\* the source: its lines, the bars its loader has (nbars), those it has
\* delivered (loaded) and how often the loader was called (calls)
NewSource(nbars) ==
    [lines |-> NewFeedLines, nbars |-> nbars, loaded |-> 0, calls |-> 0]

NewClone == [lines |-> NewFeedLines, dlen |-> 0, preloading |-> FALSE]

\* load() of the source: forward, then _load; without a bar the forward is
\* undone.  The result is the feed and what load returns.
source_load(s) ==
    LET f == lines_forward(s.lines)
    IN  IF s.loaded < s.nbars
        THEN [s |-> [s EXCEPT !.lines = [f EXCEPT !.dt = put0(@, s.loaded + 1),
                                                  !.val = put0(@, ValueOf(s.loaded + 1))],
                              !.loaded = @ + 1, !.calls = @ + 1],
              ret |-> TRUE]
        ELSE [s |-> [s EXCEPT !.lines = lines_backwards(f, TRUE), !.calls = @ + 1],
              ret |-> FALSE]

RECURSIVE source_loadall(_)
source_loadall(s) ==
    LET r == source_load(s) IN IF r.ret THEN source_loadall(r.s) ELSE r.s

\* AbstractDataBase.preload of the source
source_preload(s) ==
    [source_loadall(s) EXCEPT !.lines = lines_home(@)]

\* the loop of the clone's _load over the lines: line[0] = dline[0]
copy_lines_stale(c, s) ==
    [c EXCEPT !.dt = put0(@, getitem(s.dt, 0)),
              !.val = put0(@, getitem(s.val, -1))]

copy_lines(c, s) ==
    [c EXCEPT !.dt = put0(@, getitem(s.dt, 0)),
              !.val = put0(@, getitem(s.val, 0))]

clone_load_pulls(c, s) ==
    LET r == source_load(s)
        f == lines_forward(c.lines)
    IN  IF r.ret
        THEN [c |-> [c EXCEPT !.lines = copy_lines(f, r.s.lines), !.dlen = @ + 1],
              s |-> r.s, ret |-> TRUE]
        ELSE [c |-> [c EXCEPT !.lines = lines_backwards(f, TRUE)],
              s |-> r.s, ret |-> FALSE]

\* load() of the clone: forward, then DataClone._load.  The result is the
\* clone, the source and what load returns.
clone_load(c, s) ==
    LET f == lines_forward(c.lines)
    IN  IF c.preloading
        THEN LET s1 == [s EXCEPT !.lines = lines_advance(@)]
             IN  IF len(s1.lines.dt) > buflen(s1.lines.dt)
                 THEN [c |-> [c EXCEPT !.lines = lines_backwards(f, TRUE)],
                       s |-> s1, ret |-> FALSE]
                 ELSE [c |-> [c EXCEPT !.lines = copy_lines(f, s1.lines)],
                       s |-> s1, ret |-> TRUE]
        ELSE IF ~(len(s.lines.dt) > c.dlen)
             THEN [c |-> [c EXCEPT !.lines = lines_backwards(f, TRUE)],
                   s |-> s, ret |-> FALSE]
             ELSE [c |-> [c EXCEPT !.lines = copy_lines(f, s.lines),
                                   !.dlen = @ + 1],
                   s |-> s, ret |-> TRUE]

\* DataClone.advance
clone_advance(c) == [c EXCEPT !.dlen = @ + 1, !.lines = lines_advance(@)]

\* next() without a datamaster: load when the cursor is at the end of the
\* backing, advance otherwise
source_next(s) ==
    IF len(s.lines.dt) >= buflen(s.lines.dt) THEN source_load(s)
    ELSE [s |-> [s EXCEPT !.lines = lines_advance(@)], ret |-> TRUE]

clone_next(c, s) ==
    IF len(c.lines.dt) >= buflen(c.lines.dt) THEN clone_load(c, s)
    ELSE [c |-> clone_advance(c), s |-> s, ret |-> TRUE]

NoRets == [source |-> FALSE, clone |-> FALSE]

\* the source is preloaded first (it is before its clone in datas)
SourcePreload ==
    /\ cpc = "source_preload"
    /\ csource' = source_preload(csource)
    /\ cpc' = "clone_preload"
    /\ UNCHANGED <<cclone, cret>>
    /\ UNCHANGED notClVars

\* DataClone.preload up to the loop of load() calls
ClonePreloadBegin ==
    /\ cpc = "clone_preload"
    /\ cclone' = [cclone EXCEPT !.preloading = TRUE]
    /\ cpc' = "clone_preload_load"
    /\ UNCHANGED <<csource, cret>>
    /\ UNCHANGED notClVars

\* one load() of the clone's preload loop
ClonePreloadLoad ==
    /\ cpc = "clone_preload_load"
    /\ LET r == clone_load(cclone, csource)
       IN  /\ cclone' = r.c
           /\ csource' = r.s
           /\ cpc' = IF r.ret THEN "clone_preload_load" ELSE "clone_preload_end"
    /\ UNCHANGED cret
    /\ UNCHANGED notClVars

\* the end of the clone's preload: its own home(), the source's home()
ClonePreloadEnd ==
    /\ cpc = "clone_preload_end"
    /\ cclone' = [cclone EXCEPT !.lines = lines_home(@), !.preloading = FALSE]
    /\ csource' = [csource EXCEPT !.lines = lines_home(@)]
    /\ cpc' = "source_next"
    /\ UNCHANGED cret
    /\ UNCHANGED notClVars

\* a tick of the run: next() of the source, next() of the clone, and then
\* the rewind of the feeds that delivered a bar later than dt0
SourceNext ==
    /\ cpc = "source_next"
    /\ LET r == source_next(csource)
       IN  /\ csource' = r.s
           /\ cret' = [cret EXCEPT !.source = r.ret]
    /\ cpc' = "clone_next"
    /\ UNCHANGED cclone
    /\ UNCHANGED notClVars

CloneNext ==
    /\ cpc = "clone_next"
    /\ LET r == clone_next(cclone, csource)
       IN  /\ cclone' = r.c
           /\ csource' = r.s
           /\ cret' = [cret EXCEPT !.clone = r.ret]
    /\ cpc' = "tick_end"
    /\ UNCHANGED notClVars

TickEnd ==
    /\ cpc = "tick_end"
    /\ \E overshoot \in BOOLEAN :
          /\ overshoot => (cret.source /\ cclone.dlen < MaxDlen)
          /\ csource' = IF overshoot /\ cret.source
                        THEN [csource EXCEPT !.lines = lines_rewind(@)]
                        ELSE csource
          /\ cclone' = IF overshoot /\ cret.clone
                       THEN [cclone EXCEPT !.lines = lines_rewind(@)]
                       ELSE cclone
    /\ cpc' = IF cret.source \/ cret.clone THEN "source_next" ELSE "done"
    /\ cret' = NoRets
    /\ UNCHANGED notClVars

CloneParked ==
    /\ csource = NewSource(0)
    /\ cclone = NewClone
    /\ cpc = "source_next"
    /\ cret = NoRets

(***************************************************************************)
(* Feed status notifications (feed.py).  An entry of the queue is the      *)
(* status code of the notification; its args and kwargs play no part.      *)
(***************************************************************************)
CONNECTED == 0
UNKNOWN == 7
Statuses == CONNECTED..UNKNOWN
NotifEnd == -1      \* the None that get_notifications puts as end marker

\* AbstractDataBase.start: _laststatus = CONNECTED; the queue (made in
\* dopostinit) is left as it is
feed_start(n) == [n EXCEPT !.laststatus = CONNECTED]

NewNotifFeed == feed_start([notifs |-> <<>>, laststatus |-> CONNECTED])

put_notification_always(n, status) ==
    [n EXCEPT !.notifs = Append(@, status), !.laststatus = status]

put_notification(n, status) ==
    IF n.laststatus # status
    THEN [n EXCEPT !.notifs = Append(@, status), !.laststatus = status]
    ELSE n

RECURSIVE popleft_notifs(_, _)
popleft_notifs(q, out) ==
    IF Head(q) = NotifEnd
    THEN [q |-> Tail(q), out |-> out]
    ELSE popleft_notifs(Tail(q), Append(out, Head(q)))

get_notifications(n) ==
    LET r == popleft_notifs(Append(n.notifs, NotifEnd), <<>>)
    IN  [n |-> [n EXCEPT !.notifs = r.q], out |-> r.out]

NoCall == [op |-> "none", status |-> NotifEnd, queued |-> FALSE]

\* start() of the feed, at the beginning of a run of Cerebro
FeedStart ==
    /\ nfeed' = feed_start(nfeed)
    /\ ncall' = [op |-> "start", status |-> NotifEnd, queued |-> FALSE]
    /\ nsince' = 0
    /\ UNCHANGED notNfVars

\* put_notification(status), from start() or _load() of the feed
PutNotification ==
    \E status \in Statuses :
        /\ Len(put_notification(nfeed, status).notifs) <= MaxNotifs
        /\ nfeed' = put_notification(nfeed, status)
        /\ ncall' = [op |-> "put", status |-> status,
                     queued |-> Len(nfeed'.notifs) > Len(nfeed.notifs)]
        /\ nsince' = nsince + (Len(nfeed'.notifs) - Len(nfeed.notifs))
        /\ UNCHANGED notNfVars

\* get_notifications(), from Cerebro._datanotify
GetNotifications ==
    /\ nfeed' = get_notifications(nfeed).n
    /\ ncall' = [op |-> "get", status |-> NotifEnd,
                 queued |-> Len(get_notifications(nfeed).out) > 0]
    /\ nsince' = IF nsince <= Len(nfeed'.notifs) THEN nsince
                 ELSE Len(nfeed'.notifs)
    /\ UNCHANGED notNfVars

NotifParked ==
    /\ nfeed = NewNotifFeed
    /\ ncall = NoCall
    /\ nsince = 0

(***************************************************************************)
(* The mode decision of Cerebro.run (cerebro.py).                          *)
(***************************************************************************)
\* params: preload True, runonce True, exactbars False, live False
DefaultParams ==
    [preload |-> TRUE, runonce |-> TRUE, exactbars |-> 0, live |-> FALSE]

ParamSets ==
    [preload : BOOLEAN, runonce : BOOLEAN,
     exactbars : -MaxExactBars..MaxExactBars, live : BOOLEAN]

\* Cerebro.__init__ and the feeds added: _dolive is set by adddata of a
\* live feed, _doreplay by replaydata and resampledata; replaying says
\* that some feed of self.datas has x.replaying
NewCerebro(p, dolive, doreplay, replaying) ==
    [p |-> p, dolive |-> dolive, doreplay |-> doreplay,
     replaying |-> replaying, decided |-> FALSE,
     dorunonce |-> FALSE, dopreload |-> FALSE, exactbars |-> 0]

mode_decision_replaypreloads(c) ==
    LET xb == c.p.exactbars
        once1 == IF xb # 0 THEN FALSE ELSE c.p.runonce
        pre1 == IF xb # 0 THEN c.p.preload /\ xb < 1 ELSE c.p.preload
        replay == c.doreplay \/ c.replaying
        islive == c.dolive \/ c.p.live
    IN  [c EXCEPT !.decided = TRUE,
                  !.exactbars = xb,
                  !.doreplay = replay,
                  !.dorunonce = IF islive THEN FALSE ELSE once1,
                  !.dopreload = IF islive THEN FALSE ELSE pre1]

\* Cerebro.run: _dorunonce, _dopreload, _exactbars, _doreplay
mode_decision(c) ==
    LET xb == c.p.exactbars
        once1 == IF xb # 0 THEN FALSE ELSE c.p.runonce
        pre1 == IF xb # 0 THEN c.p.preload /\ xb < 1 ELSE c.p.preload
        replay == c.doreplay \/ c.replaying
        pre2 == IF replay THEN FALSE ELSE pre1
        islive == c.dolive \/ c.p.live
    IN  [c EXCEPT !.decided = TRUE,
                  !.exactbars = xb,
                  !.doreplay = replay,
                  !.dorunonce = IF islive THEN FALSE ELSE once1,
                  !.dopreload = IF islive THEN FALSE ELSE pre2]

\* if self._dopreload and self._dorunonce: self._runonce(runstrats)
Vectorized(c) == c.dopreload /\ c.dorunonce

\* run(**kwargs): the kwargs that are parameters replace their values
RunDecide ==
    /\ \E p \in ParamSets : mode' = mode_decision([mode EXCEPT !.p = p])
    /\ UNCHANGED notMdVars

ModeParked == mode = NewCerebro(DefaultParams, FALSE, FALSE, FALSE)

(***************************************************************************)
(* Cerebro.runstrategies (cerebro.py) and LineIterator.addindicator        *)
(* (lineiterator.py): start, the strategies built from their classes,      *)
(* the loop, shutdown and the return of the run.                           *)
(***************************************************************************)
IndType == 0
StratType == 1

\* A strategy class as the run sees it: whether its constructor raises
\* StrategySkipError, before (early) or after it has built its indicators;
\* the depth of the chain of indicators it builds (each one built in the
\* constructor of the one above); whether the deepest has _nextforce.
StratClasses ==
    {c \in [skip : BOOLEAN, early : BOOLEAN, depth : 0..MaxDepth,
            nextforce : BOOLEAN] :
        /\ c.depth = 0 => (~c.nextforce /\ ~c.early)
        /\ ~c.skip => ~c.early}

PlainClass == [skip |-> FALSE, early |-> FALSE, depth |-> 0, nextforce |-> FALSE]

Components == {"stores", "broker", "feeds", "datas", "writers"}

NewEngine(classes, dorunonce, dopreload) ==
    [classes |-> classes,
     decided |-> [dorunonce |-> dorunonce, dopreload |-> dopreload],
                              \* what run() decided (history)
     dorunonce |-> dorunonce,
     dopreload |-> dopreload,
     objs |-> <<>>,           \* the line iterators built: _ltype, _owner, _nextforce
     k |-> 1,                 \* the class runstrategies is at
     runstrats |-> <<>>,      \* the classes whose strategy is in runstrats
     status |-> [i \in 1..Len(classes) |-> "none"],
     comp |-> [c \in Components |-> "new"],
     loop |-> "none",         \* the loop taken
     ticks |-> 0,
     calls |-> [i \in 1..Len(classes) |-> 0],
     event_stop |-> FALSE,
     result |-> <<>>]

addindicator_direct(e, owner, ind) ==
    IF e.objs[ind].nextforce /\ e.objs[owner].ltype = StratType
    THEN [e EXCEPT !.dorunonce = FALSE]
    ELSE e

\* o = self; while o is not None: if o._ltype == StratType: ... break;
\* o = o._owner
RECURSIVE walk_up(_, _)
walk_up(objs, o) ==
    IF o = None THEN FALSE
    ELSE IF objs[o].ltype = StratType THEN TRUE
    ELSE walk_up(objs, objs[o].owner)

\* owner.addindicator(indicator); Cerebro._disable_runonce
addindicator(e, owner, ind) ==
    IF e.objs[ind].nextforce /\ walk_up(e.objs, owner)
    THEN [e EXCEPT !.dorunonce = FALSE]
    ELSE e

\* the indicators of a chain register with their owners when their own
\* construction ends (dopostinit): the deepest first
RECURSIVE register(_, _, _)
register(e, base, lvl) ==
    IF lvl = 0 THEN e
    ELSE register(addindicator(e, base + lvl - 1, base + lvl), base, lvl - 1)

\* stratcls(*sargs, **skwargs): the strategy, then its indicators, each
\* with the one above as _owner
construct(e, cls) ==
    LET sobj == [ltype |-> StratType, owner |-> None, nextforce |-> FALSE]
        base == Len(e.objs) + 1
        chain == [i \in 1..cls.depth |->
                    [ltype |-> IndType, owner |-> base + i - 1,
                     nextforce |-> cls.nextforce /\ i = cls.depth]]
    IN  IF cls.skip /\ cls.early
        THEN [e EXCEPT !.objs = Append(@, sobj)]
        ELSE register([e EXCEPT !.objs = Append(@, sobj) \o chain],
                      base, cls.depth)

AfterSkip_break(k, n) == n + 1

\* except bt.errors.StrategySkipError: continue
AfterSkip(k, n) == k + 1

AfterLoop_abort(stop) == IF stop THEN "return" ELSE "stopstrats"

\* _runnext and _runonce return to runstrategies, stopped or not
AfterLoop(stop) == "stopstrats"

\* stores, broker and feeds started; the feeds reset, started and, with
\* _dopreload, preloaded
EngineStart ==
    /\ epc = "start"
    /\ eng' = [eng EXCEPT !.comp = [c \in Components |->
                              IF c = "writers" THEN "new" ELSE "started"]]
    /\ epc' = "build"
    /\ UNCHANGED notEgVars

\* for stratcls, sargs, skwargs in iterstrat: one pass of the loop
Build ==
    /\ epc = "build"
    /\ LET k == eng.k
           n == Len(eng.classes)
           cls == eng.classes[k]
           e1 == construct(eng, cls)
           e2 == IF cls.skip THEN [e1 EXCEPT !.k = AfterSkip(k, n)]
                 ELSE [e1 EXCEPT !.runstrats = Append(@, k),
                                 !.status[k] = "built",
                                 !.k = k + 1]
       IN  /\ eng' = e2
           /\ epc' = IF e2.k > n THEN "startstrats" ELSE "build"
    /\ UNCHANGED notEgVars

\* if runstrats: strat._start() for each, the writers started, and the
\* choice of the loop
StartStrats ==
    /\ epc = "startstrats"
    /\ IF eng.runstrats = <<>>
       THEN /\ epc' = "shutdown"
            /\ UNCHANGED eng
       ELSE /\ eng' = [eng EXCEPT
                  !.status = [i \in DOMAIN @ |->
                                IF @[i] = "built" THEN "started" ELSE @[i]],
                  !.comp["writers"] = "started",
                  !.loop = IF eng.dopreload /\ eng.dorunonce
                           THEN "runonce" ELSE "runnext"]
            /\ epc' = "loop"
    /\ UNCHANGED notEgVars

\* one pass of the loop: the strategies of runstrats are called in their
\* order; one of them, or another thread, may call runstop(), and the
\* strategies after the one that did are not called
LoopTick ==
    /\ epc = "loop"
    /\ ~eng.event_stop
    /\ eng.ticks < MaxTicks
    /\ \E stopper \in 0..Len(eng.runstrats), other \in BOOLEAN :
          /\ stopper # 0 => ~other
          /\ eng' = [eng EXCEPT
                !.ticks = @ + 1,
                !.calls = [i \in DOMAIN @ |->
                    IF \E j \in 1..Len(eng.runstrats) :
                          /\ eng.runstrats[j] = i
                          /\ (stopper = 0 \/ j <= stopper)
                    THEN @[i] + 1 ELSE @[i]],
                !.event_stop = (stopper # 0 \/ other)]
    /\ UNCHANGED epc
    /\ UNCHANGED notEgVars

\* the loop returns: the feeds are exhausted, or runstop() was called
LoopEnd ==
    /\ epc = "loop"
    /\ epc' = AfterLoop(eng.event_stop)
    /\ UNCHANGED eng
    /\ UNCHANGED notEgVars

\* for strat in runstrats: strat._stop()
StopStrats ==
    /\ epc = "stopstrats"
    /\ eng' = [eng EXCEPT !.status = [i \in DOMAIN @ |->
                            IF @[i] = "started" THEN "stopped" ELSE @[i]]]
    /\ epc' = "shutdown"
    /\ UNCHANGED notEgVars

\* self._broker.stop(); data.stop(); feed.stop(); store.stop();
\* self.stop_writers(runstrats)
Shutdown ==
    /\ epc = "shutdown"
    /\ eng' = [eng EXCEPT !.comp = [c \in Components |-> "stopped"]]
    /\ epc' = "return"
    /\ UNCHANGED notEgVars

\* return runstrats; run() returns self.runstrats[0]
Return ==
    /\ epc = "return"
    /\ eng' = [eng EXCEPT !.result = eng.runstrats]
    /\ epc' = "returned"
    /\ UNCHANGED notEgVars

EngineParked ==
    /\ eng = NewEngine(<<PlainClass>>, TRUE, TRUE)
    /\ epc = "start"

(***************************************************************************)
(* Timer (timer.py).  A datetime is a number of instants, DayLen to the    *)
(* day: num2date splits it into a date and a time of day, combine and      *)
(* date2num put the two together again.  The timer has no time zone; with  *)
(* isdata its session end comes from the data feed it was started with,    *)
(* whose current bar is the one the check is made for.  monthdays and      *)
(* weekdays are empty and allow is any predicate of the date.              *)
(***************************************************************************)
DtMin == -1         \* datetime.min and date.min
NoWeek == -1        \* _curweek before the first date
NoMonth == -1       \* _curmonth before the first date
WeekLen == 7        \* days of an ISO week
MON == 1
TUE == 2
WED == 3
FRI == 5
NoTarget == -1      \* _dtwhen and _dwhen are None

Instants == 0..((MaxDay + 1) * DayLen - 1)

TIME_MAX == DayLen - 1

date(dt) == dt \div DayLen

combine(ddate, time) == ddate * DayLen + time

reset_when_unmarked(t, ddate) == [t EXCEPT !.dtwhen = NoTarget]

reset_when(t, ddate) == [t EXCEPT !.dtwhen = NoTarget, !.lastcall = ddate]

\* Timer.start with when a time of day (isdata false) or taken from the
\* data feed's session (isdata true)
NewTimer(when, offset, repeat, isdata, sessionend) ==
    [when |-> when, offset |-> offset, repeat |-> repeat,
     isdata |-> isdata, sessionend |-> sessionend,
     weekdays |-> <<>>, weekcarry |-> FALSE,
     monthdays |-> <<>>, monthcarry |-> TRUE,
     curmonth |-> NoMonth, monthmask |-> <<>>,
     dtwhen |-> NoTarget, lastcall |-> DtMin, nexteos |-> DtMin,
     curdate |-> DtMin, lastwhen |-> NoTarget,
     curweek |-> NoWeek, weekmask |-> <<>>]

\* a timer of the day with a weekdays mask
NewWeekTimer(when, weekdays, weekcarry) ==
    [NewTimer(when, 0, 0, FALSE, TIME_MAX) EXCEPT !.weekdays = weekdays,
                                                  !.weekcarry = weekcarry]

\* date.isocalendar(): date 0 is the Monday of week 0
isoweek(ddate) == ddate \div WeekLen

isoweekday(ddate) == (ddate % WeekLen) + 1

\* a Python bool taken as a number
Hit(ret) == IF ret THEN 1 ELSE 0

\* bisect.bisect_left(a, x) and bisect.bisect_right(a, x, lo) on a sorted a
bisect_left(a, x) == Cardinality({i \in 1..Len(a) : a[i] < x})

bisect_right(a, x, lo) ==
    LET n == Cardinality({i \in 1..Len(a) : a[i] <= x})
    IN  IF n > lo THEN n ELSE lo

\* Timer._check_week: the timer with its mask updated, and the verdict
check_week_nocarry(t, ddate) ==
    IF t.weekdays = <<>> THEN [t |-> t, ret |-> TRUE]
    ELSE
      LET newweek == isoweek(ddate) # t.curweek
          mask == IF newweek THEN t.weekdays ELSE t.weekmask
          dc == bisect_left(mask, isoweekday(ddate))
          curday == dc < Len(mask)
                    /\ bisect_right(mask, isoweekday(ddate), dc) > 0
          drop == dc + Hit(curday)
      IN  [t |-> [t EXCEPT !.curweek = isoweek(ddate),
                           !.weekmask = SubSeq(mask, drop + 1, Len(mask))],
           ret |-> curday]

check_week(t, ddate) ==
    IF t.weekdays = <<>> THEN [t |-> t, ret |-> TRUE]
    ELSE
      LET newweek == isoweek(ddate) # t.curweek
          carry0 == newweek /\ t.weekcarry /\ t.weekmask # <<>>
          mask == IF newweek THEN t.weekdays ELSE t.weekmask
          dc == bisect_left(mask, isoweekday(ddate))
          daycarry == carry0 \/ (t.weekcarry /\ dc > 0)
          curday == dc < Len(mask)
                    /\ bisect_right(mask, isoweekday(ddate), dc) > 0
          drop == dc + Hit(curday)
      IN  [t |-> [t EXCEPT !.curweek = isoweek(ddate),
                           !.weekmask = SubSeq(mask, drop + 1, Len(mask))],
           ret |-> daycarry \/ curday]

\* a timer of the day with masks and without carry
NewMaskTimer(when, weekdays, monthdays) ==
    [NewTimer(when, 0, 0, FALSE, TIME_MAX) EXCEPT !.weekdays = weekdays,
                                                  !.weekcarry = FALSE,
                                                  !.monthdays = monthdays,
                                                  !.monthcarry = FALSE]

\* ddate.month and ddate.day: date 0 is the first day of month 0 and a
\* month has MonthLen days
month(ddate) == ddate \div MonthLen

monthday(ddate) == (ddate % MonthLen) + 1

check_month_passed(t, ddate) == [t |-> t, ret |-> TRUE]

\* Timer._check_month: the timer with its mask updated, and the verdict
check_month(t, ddate) ==
    IF t.monthdays = <<>> THEN [t |-> t, ret |-> TRUE]
    ELSE
      LET newmonth == month(ddate) # t.curmonth
          carry0 == newmonth /\ t.monthcarry /\ t.monthmask # <<>>
          mask == IF newmonth THEN t.monthdays ELSE t.monthmask
          dc == bisect_left(mask, monthday(ddate))
          daycarry == carry0 \/ (t.monthcarry /\ dc > 0)
          curday == dc < Len(mask)
                    /\ bisect_right(mask, monthday(ddate), dc) > 0
          drop == dc + Hit(curday)
      IN  [t |-> [t EXCEPT !.curmonth = month(ddate),
                           !.monthmask = SubSeq(mask, drop + 1, Len(mask))],
           ret |-> daycarry \/ curday]

\* ret = self._check_month(ddate); if ret: ret = self._check_week(ddate)
check_masks(t, ddate) ==
    LET m == check_month(t, ddate)
    IN  IF m.ret THEN check_week(m.t, ddate) ELSE m

\* AbstractDataBase._getnexteos without a calendar, the feed being at dt
getnexteos(t, dt) ==
    LET nexteos == combine(date(dt), t.sessionend)
    IN  IF dt > nexteos THEN nexteos + DayLen ELSE nexteos

nexteos_at(t, dt) ==
    IF t.isdata THEN getnexteos(t, dt) ELSE combine(date(dt), TIME_MAX)

\* the first block of check: past the cached session end
check_eos(t, dt) ==
    IF dt > t.nexteos
    THEN reset_when([t EXCEPT !.nexteos = nexteos_at(t, dt)], DtMin)
    ELSE t

\* the loop that looks for the next target after a hit
RECURSIVE next_target(_, _, _)
next_target(t, dt, dwhen) ==
    LET n == dwhen + t.repeat
    IN  IF n > t.nexteos THEN reset_when(t, date(dt))
        ELSE IF n > dt THEN [t EXCEPT !.dtwhen = n]
        ELSE next_target(t, dt, n)

after_hit_keeptarget(t, dt, dwhen) ==
    IF t.repeat = 0 THEN reset_when(t, date(dt)) ELSE t

after_hit(t, dt, dwhen) ==
    IF t.repeat = 0 THEN reset_when(t, date(dt))
    ELSE next_target(IF dt > t.nexteos
                     THEN [t EXCEPT !.nexteos = nexteos_at(t, dt)]
                     ELSE t, dt, dwhen)

\* Timer.check(dt); allowed is what the month, week and allow filters say
\* of the date.  The result is the timer and what check returns.
check(t, dt, allowed) ==
    IF t.lastcall = date(dt) THEN [t |-> t, ret |-> FALSE]
    ELSE
      LET t1 == check_eos(t, dt)
          newdate == date(dt) > t1.curdate
          w == IF newdate
               THEN check_masks([t1 EXCEPT !.curdate = date(dt)], date(dt))
               ELSE [t |-> t1, ret |-> TRUE]
          t2 == w.t
      IN  IF newdate /\ ~(w.ret /\ allowed)
          THEN [t |-> reset_when(t2, date(dt)), ret |-> FALSE]
          ELSE
            LET dwhen == IF t2.dtwhen = NoTarget
                         THEN combine(date(dt), t2.when) + t2.offset
                         ELSE t2.dtwhen
                t3 == [t2 EXCEPT !.dtwhen = dwhen]
            IN  IF dt < dwhen THEN [t |-> t3, ret |-> FALSE]
                ELSE [t |-> after_hit([t3 EXCEPT !.lastwhen = dwhen], dt, dwhen),
                      ret |-> TRUE]

\* one call of check, with a dt that is not before that of the last call
TimerCheckIn(instants, verdicts, track) ==
    \E dt \in instants, allowed \in verdicts :
        /\ dt >= tnow
        /\ dt = tnow => tsame < MaxSame
        /\ LET r == check(timer, dt, allowed)
               sameday == tnow # DtMin /\ date(dt) = date(tnow)
               samesess == r.t.nexteos = sesseos
           IN  /\ timer' = r.t
               /\ tret' = r.ret
               /\ dayhits' = Hit(r.ret) + (IF sameday THEN dayhits ELSE 0)
               /\ sesshits' = IF ~r.ret THEN sesshits
                              ELSE IF samesess THEN sesshits + 1 ELSE 1
               /\ sessfirst' = IF r.ret /\ ~samesess THEN r.t.lastwhen
                               ELSE sessfirst
               /\ sesseos' = IF r.ret THEN r.t.nexteos ELSE sesseos
               /\ tdays' = IF track THEN tdays \cup {date(dt)} ELSE tdays
               /\ thitdays' = IF track /\ r.ret THEN thitdays \cup {date(dt)}
                               ELSE thitdays
        /\ tnow' = dt
        /\ tsame' = IF dt = tnow THEN tsame + 1 ELSE 0
        /\ UNCHANGED notTmVars

TimerCheck == TimerCheckIn(Instants, BOOLEAN, FALSE)

\* the checks of a timer with a weekdays mask: no allow predicate
WeekInstants == 0..((LastWeekDate + 1) * DayLen - 1)

WeekCheck == TimerCheckIn(WeekInstants, {TRUE}, TRUE)

\* the checks of a timer with masks: the first bar of a date, at midnight
MaskInstants == {combine(d, 0) : d \in 0..LastWeekDate}

MaskCheck == TimerCheckIn(MaskInstants, {TRUE}, TRUE)

TimerIdle ==
    /\ tnow = DtMin /\ tsame = 0 /\ tret = FALSE
    /\ dayhits = 0 /\ sesshits = 0 /\ sessfirst = NoTarget /\ sesseos = DtMin
    /\ tdays = {} /\ thitdays = {}

TimerParked == timer = NewTimer(0, 0, 0, FALSE, TIME_MAX) /\ TimerIdle

(***************************************************************************)
(* Data feeds.  Feed i keeps its datetime line in lines[i]; datas is       *)
(* sorted by (timeframe, compression), feed 1 is data0.  The source of a   *)
(* feed delivers bars with strictly increasing datetimes; a live source    *)
(* may answer None when nothing arrived within the polling time.           *)
(***************************************************************************)
Feeds == Lines

Dts == 1..MaxDt

Outcomes == {RetNone, RetFalse} \cup Dts

\* dt0 starts at date2num(datetime.max) - 2, later than every datetime.
DT0Init == MaxDt + 1

Min(S) == CHOOSE x \in S : \A y \in S : x <= y

NewFeed(live, resampling) ==
    [live |-> live,
     resampling |-> resampling,
     replaying |-> FALSE,
     last |-> None,      \* datetime of the last bar got from the source
     eof |-> FALSE]      \* the source has ended

\* What _load can answer: False (end of the source), None from a live
\* source, or the next bar of the source.
CanLoad(f, o) ==
    \/ o = RetFalse
    \/ o = RetNone /\ f.live /\ ~f.eof
    \/ o \in Dts /\ ~f.eof /\ o > f.last

\* forward, then the bar is stored in the new slot.
LoadBar(b, dt) ==
    LET fw == forward(b, NAN, 1)
    IN  [fw EXCEPT !.array = PyPut(fw.array, fw.idx, dt)]

\* A slip: without a bar the forward is not undone.
load_noundo(f, b, o) ==
    IF o \in Dts
    THEN [f |-> [f EXCEPT !.last = o], b |-> LoadBar(b, o), ret |-> RetTrue]
    ELSE [f |-> [f EXCEPT !.eof = @ \/ (o = RetFalse)],
          b |-> forward(b, NAN, 1),
          ret |-> o]

load(f, b, o) ==
    IF o \in Dts
    THEN [f |-> [f EXCEPT !.last = o], b |-> LoadBar(b, o), ret |-> RetTrue]
    ELSE [f |-> [f EXCEPT !.eof = @ \/ (o = RetFalse)],
          b |-> backwards(forward(b, NAN, 1), 1, TRUE).b,
          ret |-> o]

\* A slip: next() asks the source although a bar is held ahead of the cursor.
feed_next_reload(f, b, o, dtm) ==
    LET r == load(f, b, o)
    IN  IF r.ret # RetTrue THEN r
        ELSE IF dtm # None /\ getitem(r.b, 0) > dtm
             THEN [r EXCEPT !.b = rewind(r.b, 1), !.ret = RetFalse]
             ELSE r

feed_rewind_two(b) == IF len(b) >= 2 THEN rewind(b, 2) ELSE rewind(b, 1)

feed_rewind(b) == rewind(b, 1)

\* next(datamaster, ticks=False); dtm is datamaster.datetime[0], None
\* without a datamaster.
feed_next(f, b, o, dtm) ==
    LET r == IF len(b) >= buflen(b)
             THEN load(f, b, o)
             ELSE [f |-> f, b |-> advance(b, 1), ret |-> RetTrue]
    IN  IF r.ret # RetTrue THEN r
        ELSE IF dtm # None /\ getitem(r.b, 0) > dtm
             THEN [r EXCEPT !.b = feed_rewind(r.b), !.ret = RetFalse]
             ELSE r

\* The answer of the source is used only when next() calls load().
Polls(f, b, o) ==
    IF len(b) >= buflen(b) THEN CanLoad(f, o) ELSE o = RetFalse

\* The last() of the Resampler of a resampling feed may deliver the bar in
\* progress at the end of the run; _last forwards the line and stores it.
CanFlush(f, o) ==
    \/ o = RetFalse
    \/ o \in Dts /\ f.resampling /\ o > f.last

feed_last(f, b, o) ==
    IF o \in Dts
    THEN [f |-> [f EXCEPT !.last = o], b |-> LoadBar(b, o), ret |-> RetTrue]
    ELSE [f |-> f, b |-> b, ret |-> RetFalse]

(***************************************************************************)
(* Cerebro._runnext.  pc is the statement the loop is at; each action is   *)
(* one step of the loop body with the stop check that follows it.          *)
(***************************************************************************)
rsonly == {i \in Feeds : feeds[i].resampling /\ ~feeds[i].replaying}

onlyresample == rsonly = Feeds

noresample == rsonly = {}

d0ret_of_neverfalse(rets) ==
    IF \E i \in Feeds : rets[i] = RetTrue THEN RetTrue ELSE RetNone

\* d0ret = any(drets), or None if no feed produced and some answered None
d0ret_of(rets) ==
    IF \E i \in Feeds : rets[i] = RetTrue THEN RetTrue
    ELSE IF \E i \in Feeds : rets[i] = RetNone THEN RetNone
    ELSE RetFalse

\* the datetimes min() runs over when dt0 is computed
dt0_candidates(ds) ==
    IF onlyresample \/ noresample
    THEN {ds[i] : i \in {j \in Feeds : ds[j] # None}}
    ELSE {ds[i] : i \in {j \in Feeds : ds[j] # None /\ j \notin rsonly}}

BarTick_notfalse(ret, last) == ret # RetFalse \/ last

\* if d0ret or lastret:
BarTick(ret, last) == ret = RetTrue \/ last

AfterCheatTimers_always(coo) == "nextopen"

\* if self.p.cheat_on_open: ... strat._next_open()
AfterCheatTimers(coo) == IF coo THEN "nextopen" ELSE "broker"

\* while d0ret or d0ret is None:
LoopTop(ret) ==
    IF ret = RetTrue \/ ret = RetNone THEN "storenotify" ELSE "exit_datanotify"

AfterDataNotify_idle(ret, last) ==
    IF BarTick(ret, last) THEN "cheattimers" ELSE LoopTop(ret)

\* after self._datanotify(): "if d0ret or lastret:" guards the cheat slot
\* only, self._brokernotify() follows it in every pass
AfterDataNotify(ret, last) ==
    IF BarTick(ret, last) THEN "cheattimers" ELSE "broker"

Goto_nostop(stop, next) == pc' = next

\* if self._event_stop: return
Goto(stop, next) == pc' = IF stop THEN "done" ELSE next

Step(name) == steps' = Append(steps, name)

StoreNotify ==
    /\ pc = "storenotify"
    /\ lastret' = FALSE
    /\ steps' = <<"store_notify">>
    /\ Goto(event_stop, "datanotify")
    /\ UNCHANGED <<lbVars, itVars, extVars, feeds, cheat_on_open, drets, dts, dt0,
                   d0ret, strat, event_stop, seen>>

DataNotify ==
    /\ pc = "datanotify"
    /\ Step("data_notify")
    /\ Goto(event_stop, "nextbars")
    /\ UNCHANGED <<lbVars, itVars, extVars, feeds, cheat_on_open, drets, dts, dt0,
                   d0ret, lastret, strat, event_stop, seen>>

\* The state of the feeds after a round of calls with results r.
FeedsMoved(r, bs) ==
    /\ feeds' = [i \in Feeds |-> r[i].f]
    /\ lines' = bs
    /\ UNCHANGED <<bindings, refused, lastop>>

\* Some feed produced a bar: dt0, the second chance of the other feeds
\* against the datetime master, and the rewind of the bars ahead of dt0.
Produced(r1) ==
    LET rets == [i \in Feeds |-> r1[i].ret]
        dts1 == [i \in Feeds |->
                    IF rets[i] = RetTrue THEN getitem(r1[i].b, 0) ELSE None]
        cand == dt0_candidates(dts1)
    IN  /\ drets' = rets
        /\ d0ret' = RetTrue
        /\ IF cand = {}
           THEN \* min() of an empty sequence raises ValueError
                /\ raised' = "ValueError"
                /\ pc' = "raised"
                /\ dts' = dts1
                /\ FeedsMoved(r1, [i \in Feeds |-> r1[i].b])
                /\ UNCHANGED <<dt0, steps>>
           ELSE \E o2 \in [Feeds -> Outcomes] :
                /\ \A i \in Feeds :
                      IF rets[i] = RetTrue THEN o2[i] = RetFalse
                      ELSE Polls(r1[i].f, r1[i].b, o2[i])
                /\ LET m == Min(cand)
                       r2 == [i \in Feeds |->
                                IF rets[i] = RetTrue THEN r1[i]
                                ELSE feed_next(r1[i].f, r1[i].b, o2[i], m)]
                       dts2 == [i \in Feeds |->
                                  IF rets[i] # RetTrue /\ r2[i].ret = RetTrue
                                  THEN getitem(r2[i].b, 0) ELSE dts1[i]]
                   IN  /\ dt0' = m
                       /\ dts' = dts2
                       /\ FeedsMoved(r2, [i \in Feeds |->
                              IF dts2[i] # None /\ dts2[i] > m
                              THEN feed_rewind(r2[i].b) ELSE r2[i].b])
                       /\ Step("next_bars")
                       /\ pc' = "datanotify2"
                       /\ UNCHANGED raised
        /\ UNCHANGED lastret

\* No feed produced and some answered None: _check() on every feed.
Pending(r1) ==
    /\ drets' = [i \in Feeds |-> r1[i].ret]
    /\ d0ret' = RetNone
    /\ FeedsMoved(r1, [i \in Feeds |-> r1[i].b])
    /\ Step("next_bars")
    /\ pc' = "datanotify2"
    /\ UNCHANGED <<raised, dts, dt0, lastret>>

\* Every feed answered False: _last() on every feed, break if none delivers.
Exhausted(r1) ==
    \E o \in [Feeds -> Outcomes] :
        /\ \A i \in Feeds : CanFlush(r1[i].f, o[i])
        /\ LET r == [i \in Feeds |-> feed_last(r1[i].f, r1[i].b, o[i])]
               last == \E i \in Feeds : r[i].ret = RetTrue
           IN  /\ drets' = [i \in Feeds |-> r1[i].ret]
               /\ d0ret' = RetFalse
               /\ lastret' = last
               /\ FeedsMoved(r, [i \in Feeds |-> r[i].b])
               /\ Step("next_bars")
               /\ pc' = IF last THEN "datanotify2" ELSE "exit_datanotify"
               /\ UNCHANGED <<raised, dts, dt0>>

NextBars ==
    /\ pc = "nextbars"
    /\ \E o1 \in [Feeds -> Outcomes] :
        /\ \A i \in Feeds : Polls(feeds[i], lines[i], o1[i])
        /\ LET r1 == [i \in Feeds |->
                        feed_next(feeds[i], lines[i], o1[i], None)]
               ret == d0ret_of([i \in Feeds |-> r1[i].ret])
           IN  \/ ret = RetTrue /\ Produced(r1)
               \/ ret = RetNone /\ Pending(r1)
               \/ ret = RetFalse /\ Exhausted(r1)
    /\ UNCHANGED <<itVars, extVars, cheat_on_open, strat, event_stop, seen>>

\* A step that changes the position of the loop and nothing else.
Plain == UNCHANGED <<lbVars, itVars, extVars, feeds, cheat_on_open, drets, dts, dt0,
                     d0ret, lastret, event_stop, seen>>

\* self._datanotify() after the feeds were asked
DataNotify2 ==
    /\ pc = "datanotify2"
    /\ Step("data_notify")
    /\ Goto(event_stop, AfterDataNotify(d0ret, lastret))
    /\ UNCHANGED strat
    /\ Plain

\* self._check_timers(runstrats, dt0, cheat=True): every timer of
\* _timerscheat that is due at dt0 is notified
CheatTimers ==
    /\ pc = "cheattimers"
    /\ Step("cheat_timers")
    /\ pc' = AfterCheatTimers(cheat_on_open)
    /\ strat' = 1
    /\ Plain

\* strat._next_open(); the strategy may call runstop()
NextOpen ==
    /\ pc = "nextopen"
    /\ Step("next_open")
    /\ \E stop \in BOOLEAN :
        /\ event_stop' = (event_stop \/ stop)
        /\ Goto(event_stop \/ stop,
                IF strat < NStrats THEN "nextopen" ELSE "broker")
    /\ strat' = IF strat < NStrats THEN strat + 1 ELSE 1
    /\ UNCHANGED <<lbVars, itVars, extVars, feeds, cheat_on_open, drets, dts, dt0,
                   d0ret, lastret, seen>>

\* self._brokernotify()
BrokerNotify ==
    /\ pc = "broker"
    /\ Step("broker_notify")
    /\ Goto(event_stop,
            IF BarTick(d0ret, lastret) THEN "timers" ELSE LoopTop(d0ret))
    /\ UNCHANGED strat
    /\ Plain

\* self._check_timers(runstrats, dt0, cheat=False)
Timers ==
    /\ pc = "timers"
    /\ Step("timers")
    /\ pc' = "stratnext"
    /\ strat' = 1
    /\ Plain

\* The datetime of the current bar of a feed as a strategy reads it
\* (data.datetime[0]); reading an empty line raises IndexError.
Sees(b, before) ==
    IF PyIndexOK(b.array, b.idx) THEN getitem(b, 0) ELSE before

\* strat._next(); the strategy may call runstop()
StratNext ==
    /\ pc = "stratnext"
    /\ Step("strat_next")
    /\ seen' = [i \in Feeds |-> Sees(lines[i], seen[i])]
    /\ \E stop \in BOOLEAN :
        /\ event_stop' = (event_stop \/ stop)
        /\ Goto(event_stop \/ stop, "writers")
    /\ UNCHANGED <<lbVars, itVars, extVars, feeds, cheat_on_open, drets, dts, dt0,
                   d0ret, lastret, strat>>

\* self._next_writers(runstrats), inside the loop over the strategies
Writers ==
    /\ pc = "writers"
    /\ Step("writers")
    /\ pc' = IF strat < NStrats THEN "stratnext" ELSE LoopTop(d0ret)
    /\ strat' = IF strat < NStrats THEN strat + 1 ELSE 1
    /\ Plain

\* after the loop: self._datanotify(), self._storenotify()
ExitDataNotify ==
    /\ pc = "exit_datanotify"
    /\ steps' = <<>>
    /\ Goto(event_stop, "exit_storenotify")
    /\ UNCHANGED strat
    /\ Plain

ExitStoreNotify ==
    /\ pc = "exit_storenotify"
    /\ UNCHANGED steps
    /\ pc' = "done"
    /\ UNCHANGED strat
    /\ Plain

(***************************************************************************)
(* Cerebro._runonce: the loop over preloaded feeds, and runstop().         *)
(***************************************************************************)
\* float('inf'), later than every datetime and than dt0's first value
Inf == DT0Init + 1

\* a feed after preload(): its bars loaded and the cursor at home
RECURSIVE Preloaded(_, _)
Preloaded(first, n) ==
    IF n = 0 THEN home(NewLine(1))
    ELSE home(LoadBar(advance(Preloaded(first, n - 1), n - 1), first + n - 1))

\* AbstractDataBase.advance_peek
advance_peek(b) == IF len(b) < buflen(b) THEN getitem(b, 1) ELSE Inf

\* dts = [d.advance_peek() ...]; dt0 = min(dts); break when it is inf;
\* advance() of the feeds whose next bar is at dt0
OncePeek ==
    /\ pc = "once_peek"
    /\ LET peek == [i \in Feeds |-> advance_peek(lines[i])]
           m == Min({peek[i] : i \in Feeds})
       IN  IF m = Inf
           THEN /\ pc' = "done"
                /\ UNCHANGED <<lines, dt0, steps>>
           ELSE /\ lines' = [i \in Feeds |->
                               IF peek[i] <= m THEN advance(lines[i], 1)
                               ELSE lines[i]]
                /\ dt0' = m
                /\ steps' = <<"advance">>
                /\ pc' = "once_cheattimers"
    /\ UNCHANGED <<bindings, raised, refused, lastop, itVars, extVars, feeds,
                   cheat_on_open, drets, dts, d0ret, lastret, strat,
                   event_stop, seen>>

\* self._check_timers(runstrats, dt0, cheat=True)
OnceCheatTimers ==
    /\ pc = "once_cheattimers"
    /\ Step("cheat_timers")
    /\ pc' = IF cheat_on_open THEN "once_open" ELSE "once_broker"
    /\ strat' = 1
    /\ Plain

\* strat._oncepost_open(); the strategy may call runstop()
OncePostOpen ==
    /\ pc = "once_open"
    /\ Step("next_open")
    /\ \E stop \in BOOLEAN :
        /\ event_stop' = (event_stop \/ stop)
        /\ Goto(event_stop \/ stop,
                IF strat < NStrats THEN "once_open" ELSE "once_broker")
    /\ strat' = IF strat < NStrats THEN strat + 1 ELSE 1
    /\ UNCHANGED <<lbVars, itVars, extVars, feeds, cheat_on_open, drets, dts, dt0,
                   d0ret, lastret, seen>>

\* self._brokernotify()
OnceBrokerNotify ==
    /\ pc = "once_broker"
    /\ Step("broker_notify")
    /\ Goto(event_stop, "once_timers")
    /\ UNCHANGED strat
    /\ Plain

\* self._check_timers(runstrats, dt0, cheat=False)
OnceTimers ==
    /\ pc = "once_timers"
    /\ Step("timers")
    /\ pc' = "once_post"
    /\ strat' = 1
    /\ Plain

\* strat._oncepost(dt0); the strategy may call runstop()
OncePost ==
    /\ pc = "once_post"
    /\ Step("strat_next")
    /\ seen' = [i \in Feeds |-> Sees(lines[i], seen[i])]
    /\ \E stop \in BOOLEAN :
        /\ event_stop' = (event_stop \/ stop)
        /\ Goto(event_stop \/ stop, "once_writers")
    /\ UNCHANGED <<lbVars, itVars, extVars, feeds, cheat_on_open, drets, dts, dt0,
                   d0ret, lastret, strat>>

\* self._next_writers(runstrats), inside the loop over the strategies
OnceWriters ==
    /\ pc = "once_writers"
    /\ Step("writers")
    /\ pc' = IF strat < NStrats THEN "once_post" ELSE "once_peek"
    /\ strat' = IF strat < NStrats THEN strat + 1 ELSE 1
    /\ Plain

\* runstop(), called from another thread while the loop runs
RunStop ==
    /\ pc \notin {"done", "raised"}
    /\ ~event_stop
    /\ event_stop' = TRUE
    /\ UNCHANGED <<lbVars, itVars, extVars, feeds, cheat_on_open, pc, drets,
                   dts, dt0, d0ret, lastret, strat, steps, seen>>

RunParked ==
    /\ feeds = [i \in Feeds |-> NewFeed(FALSE, FALSE)]
    /\ cheat_on_open = FALSE
    /\ pc = "storenotify"
    /\ drets = [i \in Feeds |-> RetFalse]
    /\ dts = [i \in Feeds |-> None]
    /\ dt0 = DT0Init
    /\ d0ret = RetTrue
    /\ lastret = FALSE
    /\ strat = 1
    /\ event_stop = FALSE
    /\ steps = <<>>
    /\ seen = [i \in Feeds |-> None]

(***************************************************************************)
(* Line operations and delays (linebuffer.py): LineDelay(a, ago), which    *)
(* is a _LineDelay for ago <= 0 and a _LineForward for ago > 0,            *)
(* LinesOperation(a, b, operation, r) and LineOwnOperation(a, operation),  *)
(* driven bar by bar through _next and at once through _once.              *)
(***************************************************************************)
OpVals == 1..2

Abs(x) == IF x < 0 THEN -x ELSE x

\* the operation of a LinesOperation: a function of two floats, NaN when
\* an operand is NaN
Operation(x, y) == IF x = NAN \/ y = NAN THEN NAN ELSE ValueBase * x + y

\* the operation of a LineOwnOperation
OwnOperation(x) == IF x = NAN THEN NAN ELSE ValueBase + x

\* LineSingle.addminperiod
addminperiod(mp, add) == mp + (add - 1)

\* what the constructors leave in _minperiod: the largest of the operands'
\* (MetaLineActions.dopreinit), and what the delay adds
ops_minperiod(o) ==
    IF o.kind = "delay"
    THEN IF o.ago <= 0 THEN addminperiod(o.mpa, Abs(o.ago) + 1)
         ELSE IF o.ago > o.mpa THEN addminperiod(o.mpa, o.ago - o.mpa + 1)
         ELSE o.mpa
    ELSE o.mpa

\* the operand a holds NaN below its own minimum period; the operand line
\* b holds the number of the bar
AValue(o, j) == IF j < o.mpa THEN NAN ELSE o.avals[j]

BValue(j) == j

ASource(o) == [j \in 1..Len(o.avals) |-> AValue(o, j)]

BSource(o) == [j \in 1..Len(o.avals) |-> BValue(j)]

NewOps(kind, ago, bline, r, bval, mpa, avals) ==
    [kind |-> kind, ago |-> ago, bline |-> bline, r |-> r, bval |-> bval,
     mpa |-> mpa, avals |-> avals,
     a |-> NewLine(1), b |-> NewLine(1),    \* the operands, bar by bar
     nx |-> NewLine(1),                     \* the result, bar by bar
     nxerr |-> FALSE,                       \* IndexError in a next()
     on |-> NewLine(1),                     \* the result of _once
     onerr |-> FALSE,                       \* IndexError in _once
     oncedone |-> FALSE]

\* array[i] = v and array[i] with Python's indices; out of range raises
put_at(arr, i, v) ==
    IF PyIndexOK(arr, i) THEN [arr |-> PyPut(arr, i, v), err |-> FALSE]
    ELSE [arr |-> arr, err |-> TRUE]

get_at(arr, i) ==
    IF PyIndexOK(arr, i) THEN [v |-> PyAt(arr, i), err |-> FALSE]
    ELSE [v |-> NAN, err |-> TRUE]

\* the value LinesOperation stores for the operand values x of a and y of b
op_value(o, x, y) ==
    IF o.bline THEN (IF o.r THEN Operation(y, x) ELSE Operation(x, y))
    ELSE IF ~o.r THEN Operation(x, o.bval)
    ELSE Operation(o.bval, x)

\* next(): _LineDelay self[0] = self.a[self.ago]; _LineForward
\* self[-self.ago] = self.a[0]; the operations self[0] = operation(...)
ops_next(o, a, b, nx) ==
    IF o.kind = "delay" /\ o.ago <= 0
    THEN LET g == get_at(a.array, a.idx + o.ago)
             w == put_at(nx.array, nx.idx, g.v)
         IN  IF g.err THEN [arr |-> nx.array, err |-> TRUE] ELSE w
    ELSE IF o.kind = "delay"
    THEN put_at(nx.array, nx.idx - o.ago, getitem(a, 0))
    ELSE IF o.kind = "op"
    THEN put_at(nx.array, nx.idx, op_value(o, getitem(a, 0), getitem(b, 0)))
    ELSE put_at(nx.array, nx.idx, OwnOperation(getitem(a, 0)))

\* LineActions._next
ops__next(o, a, b) ==
    LET clock_len == len(a)
        fw == IF clock_len > len(o.nx) THEN forward(o.nx, NAN, 1) ELSE o.nx
    IN  IF clock_len >= ops_minperiod(o)
        THEN LET w == ops_next(o, a, b, fw)
             IN  [nx |-> [fw EXCEPT !.array = w.arr], err |-> w.err]
        ELSE [nx |-> fw, err |-> FALSE]

once_src_same(i, ago) == i

\* for i in range(start, end): dst[i] = src[i + ago]
once_src(i, ago) == i + ago

\* one pass of the loop of once(): i is Python's index
ops_once_at(o, dst, i) ==
    LET srca == ASource(o)
        srcb == BSource(o)
    IN  IF o.kind = "delay" /\ o.ago <= 0
        THEN LET g == get_at(srca, once_src(i, o.ago))
             IN  IF g.err THEN [arr |-> dst, err |-> TRUE]
                 ELSE put_at(dst, i, g.v)
        ELSE IF o.kind = "delay"
        THEN LET g == get_at(srca, i)
             IN  IF g.err THEN [arr |-> dst, err |-> TRUE]
                 ELSE put_at(dst, i - o.ago, g.v)
        ELSE LET ga == get_at(srca, i)
                 gb == get_at(srcb, i)
             IN  IF ga.err \/ (o.kind = "op" /\ o.bline /\ gb.err)
                 THEN [arr |-> dst, err |-> TRUE]
                 ELSE IF o.kind = "op"
                 THEN put_at(dst, i, op_value(o, ga.v, gb.v))
                 ELSE put_at(dst, i, OwnOperation(ga.v))

\* once(start, end)
RECURSIVE ops_once(_, _, _, _)
ops_once(o, dst, start, end) ==
    IF start >= end THEN [arr |-> dst, err |-> FALSE]
    ELSE LET w == ops_once_at(o, dst, start)
         IN  IF w.err THEN w ELSE ops_once(o, w.arr, start + 1, end)

\* LineActions._once: forward(size=clock.buflen()), home(), preonce,
\* oncestart(minperiod - 1, minperiod), once(minperiod, buflen)
ops__once(o) ==
    LET mp == ops_minperiod(o)
        fw == home(forward(o.on, NAN, Len(o.avals)))
        w1 == ops_once(o, fw.array, mp - 1, mp)
        w2 == IF w1.err THEN w1 ELSE ops_once(o, w1.arr, mp, buflen(fw))
    IN  [on |-> [fw EXCEPT !.array = w2.arr], err |-> w2.err]

\* one bar of the per-bar run: the operands get their bar, then _next
OpsBar ==
    /\ len(ops.a) < Len(ops.avals)
    /\ ~ops.nxerr
    /\ LET j == len(ops.a) + 1
           a1 == LoadBar(ops.a, AValue(ops, j))
           b1 == LoadBar(ops.b, BValue(j))
           r == ops__next(ops, a1, b1)
       IN  ops' = [ops EXCEPT !.a = a1, !.b = b1, !.nx = r.nx, !.nxerr = r.err]
    /\ UNCHANGED notOpVars

\* the vectorized run: _once over the preloaded operands
OpsOnce ==
    /\ ~ops.oncedone
    /\ LET r == ops__once(ops)
       IN  ops' = [ops EXCEPT !.on = r.on, !.onerr = r.err, !.oncedone = TRUE]
    /\ UNCHANGED notOpVars

OpsParked == ops = NewOps("ownop", 0, FALSE, FALSE, 1, 1, <<>>)

(***************************************************************************)
(* AbstractDataBase.load (feed.py).  The feed is its datetime line, in     *)
(* either mode; src is what _load will answer, call by call: a bar (its    *)
(* datetime), None, and False when it is used up.  A fromdate of NoFrom    *)
(* and a todate of NoTo stand for no limit.  The feed has at most one      *)
(* filter, which acts on the bar with the datetime filt.on through the     *)
(* calls feed.py offers to filters.                                        *)
(***************************************************************************)
LdDts == 1..MaxDt

NoFrom == 0

NoTo == MaxDt + 1

FilterKinds == {"none", "remove", "tostack", "tostash", "mutate"}

NewLoadFeed(line, src, fromdate, todate, filt) ==
    [line |-> line, src |-> src, fromdate |-> fromdate, todate |-> todate,
     filt |-> filt,
     barstack |-> <<>>, barstash |-> <<>>,      \* start()
     ret |-> RetNone,       \* what the last load() returned (history)
     path |-> "none",       \* where the bar it returned came from (history)
     mutated |-> FALSE,     \* whether a filter changed that bar (history)
     dropped |-> 0,         \* bars it discarded for their date (history)
     past |-> FALSE,        \* one of them was past todate (history)
     err |-> FALSE,         \* an IndexError ended the last load()
     pre |-> line,          \* the line before the last load() (history)
     calls |-> 0]

\* line[0] = val
ld_put(s, v) ==
    IF PyIndexOK(s.line.array, s.line.idx)
    THEN [s EXCEPT !.line = put0(s.line, v)]
    ELSE [s EXCEPT !.err = TRUE]

\* backwards(force=force) of the feed
ld_backwards(s, force) ==
    LET r == backwards(s.line, 1, force)
    IN  [s EXCEPT !.line = r.b, !.err = r.err]

\* What _load answers and leaves behind: the next bar in the current slot,
\* None, or False at the end of the source.
ld__load(s) ==
    IF s.src = <<>> THEN [s EXCEPT !.ret = RetFalse]
    ELSE IF Head(s.src) = RetNone
    THEN [s EXCEPT !.src = Tail(s.src), !.ret = RetNone]
    ELSE [ld_put(s, Head(s.src)) EXCEPT !.src = Tail(s.src), !.ret = RetTrue,
                                        !.path = "source"]

\* the filter called for the current bar: whether it took the bar out
\* (retff), and the feed as it leaves it
ld_filter(s) ==
    LET f == s.filt
        acts == PyIndexOK(s.line.array, s.line.idx) /\ f.kind # "none"
                /\ getitem(s.line, 0) = f.on
    IN  IF ~acts THEN [s |-> s, retff |-> FALSE]
        ELSE IF f.kind = "remove"
        THEN [s |-> ld_backwards(s, FALSE), retff |-> TRUE]
        ELSE IF f.kind = "tostack"
        THEN [s |-> ld_backwards([s EXCEPT !.barstack = Append(@, f.to)],
                                 FALSE),
              retff |-> TRUE]
        ELSE IF f.kind = "tostash"
        THEN [s |-> ld_backwards([s EXCEPT !.barstash = Append(@, f.to)],
                                 FALSE),
              retff |-> TRUE]
        ELSE [s |-> [ld_put(s, f.to) EXCEPT !.mutated = TRUE],
              retff |-> FALSE]

ld_past_todate_kept(s, dt) == FALSE

\* if dt > self.todate
ld_past_todate(s, dt) == dt > s.todate

ld_undo_unforced(s) == ld_backwards(s, FALSE)

\* self.backwards(force=True): undo data pointer
ld_undo(s) == ld_backwards(s, TRUE)

\* load(): the passes of its while True loop
RECURSIVE ld_load(_)
ld_load(s) ==
    LET fw == [s EXCEPT !.line = forward(s.line, NAN, 1)]
    IN  IF fw.barstack # <<>>
        THEN [ld_put(fw, Head(fw.barstack)) EXCEPT
                  !.barstack = Tail(fw.barstack),
                  !.ret = RetTrue, !.path = "stack"]
        ELSE LET got ==
                     IF fw.barstash # <<>>
                     THEN [ld_put(fw, Head(fw.barstash)) EXCEPT
                               !.barstash = Tail(fw.barstash),
                               !.ret = RetTrue, !.path = "stash"]
                     ELSE ld__load(fw)
             IN  IF got.err THEN got
                 ELSE IF got.ret # RetTrue THEN ld_undo(got)
                 ELSE LET dt == getitem(got.line, 0)
                      IN  IF dt < got.fromdate
                          THEN LET b == [ld_backwards(got, FALSE) EXCEPT
                                             !.dropped = @ + 1]
                               IN  IF b.err THEN b ELSE ld_load(b)
                          ELSE IF ld_past_todate(got, dt)
                          THEN [ld_undo(got) EXCEPT !.ret = RetFalse,
                                                    !.dropped = @ + 1,
                                                    !.past = TRUE]
                          ELSE LET r == ld_filter(got)
                               IN  IF r.s.err THEN r.s
                                   ELSE IF r.retff THEN ld_load(r.s)
                                   ELSE [r.s EXCEPT !.ret = RetTrue]

\* what is left for load() to deliver or to find out
LdPending(s) ==
    \/ s.src # <<>>
    \/ s.barstack # <<>>
    \/ s.barstash # <<>>
    \/ s.ret # RetFalse

LdLoad ==
    /\ LdPending(ld)
    /\ ~ld.err
    /\ ld' = [ld_load([ld EXCEPT !.path = "none", !.mutated = FALSE,
                                 !.dropped = 0, !.past = FALSE,
                                 !.ret = RetNone])
                  EXCEPT !.pre = ld.line, !.calls = ld.calls + 1]
    /\ UNCHANGED notLdVars

LoadParked ==
    ld = NewLoadFeed(NewLine(1), <<>>, NoFrom, NoTo,
                     [kind |-> "none", on |-> 1, to |-> 1])

(***************************************************************************)
(* IBData (feeds/ibdata.py).                                               *)
(***************************************************************************)
\* the status codes IBData notifies (feed.py, with CONNECTED and UNKNOWN)
DISCONNECTED == 1
CONNBROKEN == 2
DELAYED == 3
LIVE == 4
NOTSUBSCRIBED == 5

\* _ST_FROM, _ST_START, _ST_LIVE, _ST_HISTORBACK, _ST_OVER = range(5)
ST_FROM == 0
ST_START == 1
ST_LIVE == 2
ST_HISTORBACK == 3
ST_OVER == 4

\* the integers the store puts on a queue in place of a bar
NotSubscribed == -354       \* data not subscribed
NoPermissions == -420       \* no permissions for the data
ConnLost == -1100           \* connection lost
ConnRestoredLost == -1101   \* connection restored, tickerId lost
ConnRestoredKept == -1102   \* connection restored, tickerId kept
Revoked == -10225           \* a revocation, the subscription is deactivated
OtherCode == -2             \* an integer none of the branches names

\* A message of a queue: a bar with its datetime, the closing message of a
\* historical download (its date is None), the None of a broken connection,
\* or an integer.
IbBar(dt) == [kind |-> "bar", v |-> dt]
IbEnd == [kind |-> "end", v |-> 0]
IbNone == [kind |-> "none", v |-> 0]
IbCode(c) == [kind |-> "code", v |-> c]

IbDts == 1..MaxIbDt

LiveMsgs ==
    {IbBar(dt) : dt \in IbDts} \cup {IbNone}
        \cup {IbCode(c) : c \in {NotSubscribed, ConnLost, ConnRestoredLost,
                                 ConnRestoredKept, Revoked, OtherCode}}

HistMsgs ==
    {IbBar(dt) : dt \in IbDts} \cup {IbEnd, IbNone}
        \cup {IbCode(c) : c \in {NotSubscribed, NoPermissions, OtherCode}}

\* IBData after __init__ and AbstractDataBase.start, before IBData.start
\* has looked for the contract.  fromleft is the number of bars left in
\* backfill_from; last is the datetime of the bar delivered last.
NewIBData(historical, backfill_start, backfill, latethrough, hasfrom, fromleft) ==
    [contract |-> FALSE, state |-> IF hasfrom THEN ST_FROM ELSE ST_START,
     historical |-> historical, backfill_start |-> backfill_start,
     backfill |-> backfill, latethrough |-> latethrough,
     fromleft |-> fromleft,
     qlive |-> <<>>, qhist |-> <<>>, hasqhist |-> FALSE, storedmsg |-> <<>>,
     statelivereconn |-> FALSE, subcription_valid |-> FALSE,
     laststatus |-> CONNECTED, last |-> None,
     ret |-> RetFalse, waiting |-> FALSE, callnotifs |-> <<>>,
     read |-> <<>>, event |-> "none", puts |-> 0,
     rejected |-> FALSE, afterreject |-> {}, ended |-> FALSE, afterend |-> {}]

\* AbstractDataBase.put_notification on the feed: laststatus, and the
\* notifications of the call going on
ib_put_notification(s, status) ==
    IF s.laststatus # status
    THEN [s EXCEPT !.laststatus = status, !.callnotifs = Append(@, status)]
    ELSE s

\* self.qhist = self.ib.reqHistoricalDataEx(...): a queue of its own for
\* the request
ib_reqhist(s) == [s EXCEPT !.qhist = <<>>, !.hasqhist = TRUE]

\* IBData.reqdata: a queue of its own for the new subscription
ib_reqdata(s) ==
    IF ~s.contract \/ s.subcription_valid THEN s
    ELSE [s EXCEPT !.qlive = <<>>, !.subcription_valid = TRUE]

\* IBData._st_start; rc is the answer of self.ib.reconnect(resub=True)
ib_st_start(s, rc) ==
    IF s.historical
    THEN [s |-> [ib_reqhist(ib_put_notification(s, DELAYED))
                    EXCEPT !.state = ST_HISTORBACK],
          ok |-> TRUE]
    ELSE IF ~rc
    THEN [s |-> [ib_put_notification(s, DISCONNECTED) EXCEPT !.state = ST_OVER],
          ok |-> FALSE]
    ELSE LET s1 == [s EXCEPT !.statelivereconn = s.backfill_start]
             s2 == IF s.backfill_start THEN ib_put_notification(s1, DELAYED)
                   ELSE s1
         IN  [s |-> [s2 EXCEPT !.state = ST_LIVE], ok |-> TRUE]

\* IBData.start: found tells that the store is connected and has the
\* details of the contract
ib_start(s, found, rc) ==
    IF ~found THEN s
    ELSE LET s1 == [s EXCEPT !.contract = TRUE]
         IN  IF s1.state = ST_START THEN ib_st_start(s1, rc).s ELSE s1

\* IBData._load_rtbar and _load_rtvolume: the bar goes into the lines
\* unless it is earlier than the bar before and latethrough is not set
ib_load_bar(s, dt) ==
    IF s.last # None /\ dt < s.last /\ ~s.latethrough
    THEN [s |-> s, ret |-> FALSE]
    ELSE [s |-> [s EXCEPT !.last = dt], ret |-> TRUE]

ib_return(s, ret) == [s EXCEPT !.ret = ret, !.waiting = FALSE]

\* event tells what a call ended on, for the statements about the calls
\* that follow
ib_reject_quiet(s) == ib_return([s EXCEPT !.event = "reject"], RetFalse)

\* self.put_notification(self.NOTSUBSCRIBED); return False
ib_reject(s) ==
    ib_return([ib_put_notification(s, NOTSUBSCRIBED) EXCEPT !.event = "reject"],
              RetFalse)

ib_histend_quiet(s) == ib_return([s EXCEPT !.event = "end"], RetFalse)

\* if self.p.historical: put_notification(DISCONNECTED); return False
ib_histend(s) ==
    ib_return([ib_put_notification(s, DISCONNECTED) EXCEPT !.event = "end"],
              RetFalse)

\* The loop of IBData._load until it returns or waits in qhist.get(); rc
\* is the answer of the store to a reconnect.
RECURSIVE ib_loop(_, _)
ib_loop(s, rc) ==
    IF s.state = ST_LIVE
    THEN
      IF s.storedmsg = <<>> /\ s.qlive = <<>> THEN ib_return(s, RetNone)
      ELSE
        LET msg == IF s.storedmsg # <<>> THEN s.storedmsg[1] ELSE Head(s.qlive)
            s0 == IF s.storedmsg # <<>> THEN [s EXCEPT !.storedmsg = <<>>]
                  ELSE [s EXCEPT !.qlive = Tail(@)]
            s1 == [s0 EXCEPT !.read = Append(@, msg)]
            reconn == IF s1.statelivereconn THEN TRUE ELSE s1.backfill
        IN  IF msg.kind = "none"
            THEN LET s2 == ib_put_notification(
                               [s1 EXCEPT !.subcription_valid = FALSE],
                               CONNBROKEN)
                 IN  IF ~rc
                     THEN ib_return(ib_put_notification(s2, DISCONNECTED),
                                    RetFalse)
                     ELSE ib_loop([s2 EXCEPT !.statelivereconn = s2.backfill],
                                  rc)
            ELSE IF msg.kind = "code" /\ msg.v = NotSubscribed
            THEN ib_reject(s1)
            ELSE IF msg.kind = "code" /\ msg.v = ConnLost
            THEN ib_loop([s1 EXCEPT !.subcription_valid = FALSE,
                                    !.statelivereconn = s1.backfill], rc)
            ELSE IF msg.kind = "code" /\ msg.v = ConnRestoredKept
            THEN ib_loop([s1 EXCEPT !.statelivereconn = reconn], rc)
            ELSE IF msg.kind = "code" /\ msg.v \in {ConnRestoredLost, Revoked}
            THEN LET s2 == [s1 EXCEPT !.subcription_valid = FALSE]
                 IN  ib_loop(IF s2.statelivereconn THEN s2
                             ELSE ib_reqdata([s2 EXCEPT !.statelivereconn =
                                                            s2.backfill]),
                             rc)
            ELSE IF msg.kind = "code"
            THEN ib_loop(ib_put_notification(s1, UNKNOWN), rc)
            ELSE IF ~s1.statelivereconn
            THEN LET s2 == IF s1.laststatus # LIVE /\ Len(s1.qlive) <= 1
                           THEN ib_put_notification(s1, LIVE) ELSE s1
                     r == ib_load_bar(s2, msg.v)
                 IN  IF r.ret THEN ib_return(r.s, RetTrue)
                     ELSE ib_loop(r.s, rc)
            ELSE LET s2 == ib_put_notification(
                               [s1 EXCEPT !.storedmsg = <<msg>>], DELAYED)
                 IN  ib_loop([ib_reqhist(s2) EXCEPT !.state = ST_HISTORBACK,
                                                    !.statelivereconn = FALSE],
                             rc)
    ELSE IF s.state = ST_HISTORBACK
    THEN
      IF s.qhist = <<>> THEN [s EXCEPT !.waiting = TRUE]
      ELSE
        LET msg == Head(s.qhist)
            s1 == [s EXCEPT !.qhist = Tail(@), !.read = Append(@, msg)]
        IN  IF msg.kind = "none"
            THEN ib_return(ib_put_notification(
                               [s1 EXCEPT !.subcription_valid = FALSE],
                               DISCONNECTED), RetFalse)
            ELSE IF msg.kind = "code" /\ msg.v \in {NotSubscribed, NoPermissions}
            THEN ib_reject([s1 EXCEPT !.subcription_valid = FALSE])
            ELSE IF msg.kind = "code"
            THEN ib_loop(ib_put_notification(s1, UNKNOWN), rc)
            ELSE IF msg.kind = "bar"
            THEN LET r == ib_load_bar(s1, msg.v)
                 IN  IF r.ret THEN ib_return(r.s, RetTrue)
                     ELSE ib_loop(r.s, rc)
            ELSE IF s1.historical THEN ib_histend(s1)
            ELSE ib_loop([s1 EXCEPT !.state = ST_LIVE], rc)
    ELSE IF s.state = ST_FROM
    THEN IF s.fromleft = 0 THEN ib_loop([s EXCEPT !.state = ST_START], rc)
         ELSE ib_return([s EXCEPT !.fromleft = @ - 1], RetTrue)
    ELSE IF s.state = ST_START
    THEN LET r == ib_st_start(s, rc)
         IN  IF r.ok THEN ib_loop(r.s, rc) ELSE ib_return(r.s, RetFalse)
    ELSE ib_return(s, RetFalse)

\* IBData._load, a new call
ib__load(s, rc) ==
    LET s0 == [s EXCEPT !.callnotifs = <<>>, !.read = <<>>, !.event = "none"]
    IN  IF ~s0.contract \/ s0.state = ST_OVER THEN ib_return(s0, RetFalse)
        ELSE ib_loop(s0, rc)

\* what a call that is over adds to what is known of the run: the answers
\* of the calls made after a rejection and after the end of the download
\* of a historical feed
ib_note(old, s) ==
    IF s.waiting THEN s
    ELSE [s EXCEPT !.afterreject = IF old.rejected THEN @ \cup {s.ret} ELSE @,
                   !.afterend = IF old.ended THEN @ \cup {s.ret} ELSE @,
                   !.rejected = @ \/ (s.event = "reject"),
                   !.ended = @ \/ (s.event = "end")]

\* A call of _load by load(), to its return or to where it waits for the
\* store in qhist.get().
IBLoad ==
    /\ ~ib.waiting
    /\ \E rc \in BOOLEAN : ib' = ib_note(ib, ib__load(ib, rc))
    /\ UNCHANGED notIbVars

\* The call that waits in qhist.get() gets a message and goes on.
IBResume ==
    /\ ib.waiting
    /\ ib.qhist # <<>>
    /\ \E rc \in BOOLEAN : ib' = ib_note(ib, ib_loop(ib, rc))
    /\ UNCHANGED notIbVars

\* The thread of the store puts a message on the queue of the live data or
\* on that of the historical request.
IBPut ==
    /\ ib.puts < MaxIbMsgs
    /\ ib.contract
    /\ \/ \E msg \in LiveMsgs :
             ib' = [ib EXCEPT !.qlive = Append(@, msg), !.puts = @ + 1]
       \/ /\ ib.hasqhist
          /\ \E msg \in HistMsgs :
                ib' = [ib EXCEPT !.qhist = Append(@, msg), !.puts = @ + 1]
    /\ UNCHANGED notIbVars

IBParked == ib = NewIBData(FALSE, FALSE, FALSE, FALSE, FALSE, 0)

(***************************************************************************)
(* The simulated live feed (integration_testing/main.py).                  *)
(***************************************************************************)
\* SimulatedRealTimeData after __init__ and start(): the queue is empty,
\* the thread of _run is about to load the history.  hist is the number of
\* bars get_historical_data returns; bar k of the generator has datetime k
\* (DefaultSimulatedDataGenerator: every bar one interval after the one
\* before, the first bar of get_next_bar after the last of the history).
\* enq, delivered and putbacks record the run: the bars in the order _run
\* put them, the bars in the order next() delivered them, and whether
\* next() has put a bar back.
NewLiveFeed(hist) ==
    [data_q |-> <<>>, hist |-> hist,
     running |-> TRUE, ppc |-> "history", last_dt |-> None,
     last_bar_time |-> None,
     cpc |-> "idle", dtmaster |-> None, bar |-> None,
     lastdatetime |-> None, ret |-> RetNone,
     enq |-> <<>>, delivered |-> <<>>, putback |-> FALSE]

\* self._data_q.put(bar) by the thread of _run
rt_put(s, dt) ==
    [s EXCEPT !.data_q = Append(@, dt), !.enq = Append(@, dt)]

rt_putback_drop(s) ==
    [s EXCEPT !.putback = TRUE, !.bar = None, !.dtmaster = None,
              !.cpc = "idle", !.ret = RetNone]

\* self._data_q.put(bar); return None
rt_putback(s) ==
    [s EXCEPT !.data_q = Append(@, s.bar), !.putback = TRUE,
              !.bar = None, !.dtmaster = None, !.cpc = "idle",
              !.ret = RetNone]

\* _lastdatetime = dt; forward(); lines.datetime[0] = dt; return True
rt_deliver(s, dt) ==
    [s EXCEPT !.lastdatetime = dt, !.delivered = Append(@, dt),
              !.bar = None, !.dtmaster = None, !.cpc = "idle",
              !.ret = RetTrue]

\* _load_historical_data in the thread of _run: the loop
\* "for bar in hist_data: self._data_q.put(bar)", one bar
LiveHistoryPut ==
    /\ rt.ppc = "history"
    /\ rt.last_dt < rt.hist
    /\ rt' = [rt_put(rt, rt.last_dt + 1) EXCEPT !.last_dt = @ + 1]
    /\ UNCHANGED notRtVars

\* the history is on the queue: _run goes on to its loop
LiveHistoryEnd ==
    /\ rt.ppc = "history"
    /\ rt.last_dt = rt.hist
    /\ rt' = [rt EXCEPT !.ppc = "live"]
    /\ UNCHANGED notRtVars

\* one pass of "while self._running" in _run: get_next_bar, the test of
\* the datetime against the last one, put
LiveRun ==
    /\ rt.ppc = "live"
    /\ rt.last_dt < MaxLiveBars
    /\ IF ~rt.running THEN rt' = [rt EXCEPT !.ppc = "over"]
       ELSE LET dt == rt.last_dt + 1
                s == [rt EXCEPT !.last_dt = dt]
            IN  IF s.last_bar_time # None /\ dt <= s.last_bar_time
                THEN rt' = s
                ELSE rt' = [rt_put(s, dt) EXCEPT !.last_bar_time = dt]
    /\ UNCHANGED notRtVars

\* stop() by the main thread: self._running = False
LiveStop ==
    /\ rt.running
    /\ rt.cpc = "idle"
    /\ rt' = [rt EXCEPT !.running = FALSE]
    /\ UNCHANGED notRtVars

\* next(datamaster): "if not self.haslivedata(): return None"; dtmaster is
\* datamaster.datetime[0], None without a datamaster
LiveNextCheck ==
    /\ rt.cpc = "idle"
    /\ \E dtmaster \in {None} \cup (1..MaxLiveBars) :
          rt' = IF rt.data_q = <<>> THEN [rt EXCEPT !.ret = RetNone]
                ELSE [rt EXCEPT !.cpc = "get", !.dtmaster = dtmaster]
    /\ UNCHANGED notRtVars

\* bar = self._data_q.get() and the comparison with the datamaster; a bar
\* that is not later than the master is delivered
LiveNextGet ==
    /\ rt.cpc = "get"
    /\ LET dt == Head(rt.data_q)
           s == [rt EXCEPT !.data_q = Tail(@), !.bar = dt]
       IN  rt' = IF s.dtmaster # None /\ dt > s.dtmaster
                 THEN [s EXCEPT !.cpc = "putback"]
                 ELSE rt_deliver(s, dt)
    /\ UNCHANGED notRtVars

\* the bar later than the master goes back on the queue
LiveNextPutBack ==
    /\ rt.cpc = "putback"
    /\ rt' = rt_putback(rt)
    /\ UNCHANGED notRtVars

LiveParked == rt = NewLiveFeed(0)

(***************************************************************************)
(* SpecLB: every cursor operation on one LineBuffer, in both modes.        *)
(***************************************************************************)
\* the parts of the model a specification does not exercise stay as built
CoreParked ==
    /\ lines = [i \in Lines |-> NewLine(1)]
    /\ bindings = [l \in Lines |-> <<>>]
    /\ raised = "none"
    /\ refused = [l \in Lines |-> FALSE]
    /\ lastop = NoOp
    /\ IterParked
    /\ RunParked

ExtParked ==
    /\ TimerParked
    /\ CloneParked
    /\ NotifParked
    /\ ModeParked
    /\ EngineParked
    /\ OpsParked
    /\ LoadParked
    /\ IBParked
    /\ LiveParked

AllButTimerParked ==
    /\ CoreParked
    /\ CloneParked
    /\ NotifParked
    /\ ModeParked
    /\ EngineParked
    /\ OpsParked
    /\ LoadParked
    /\ IBParked
    /\ LiveParked

AllButCloneParked ==
    /\ CoreParked
    /\ TimerParked
    /\ NotifParked
    /\ ModeParked
    /\ EngineParked
    /\ OpsParked
    /\ LoadParked
    /\ IBParked
    /\ LiveParked

AllButNotifParked ==
    /\ CoreParked
    /\ TimerParked
    /\ CloneParked
    /\ ModeParked
    /\ EngineParked
    /\ OpsParked
    /\ LoadParked
    /\ IBParked
    /\ LiveParked

AllButModeParked ==
    /\ CoreParked
    /\ TimerParked
    /\ CloneParked
    /\ NotifParked
    /\ EngineParked
    /\ OpsParked
    /\ LoadParked
    /\ IBParked
    /\ LiveParked

AllButEngineParked ==
    /\ CoreParked
    /\ TimerParked
    /\ CloneParked
    /\ NotifParked
    /\ ModeParked
    /\ OpsParked
    /\ LoadParked
    /\ IBParked
    /\ LiveParked

AllButOpsParked ==
    /\ CoreParked
    /\ TimerParked
    /\ CloneParked
    /\ NotifParked
    /\ ModeParked
    /\ EngineParked
    /\ LoadParked
    /\ IBParked
    /\ LiveParked

AllButLoadParked ==
    /\ CoreParked
    /\ TimerParked
    /\ CloneParked
    /\ NotifParked
    /\ ModeParked
    /\ EngineParked
    /\ OpsParked
    /\ IBParked
    /\ LiveParked

AllButIBParked ==
    /\ CoreParked
    /\ TimerParked
    /\ CloneParked
    /\ NotifParked
    /\ ModeParked
    /\ EngineParked
    /\ OpsParked
    /\ LoadParked
    /\ LiveParked

AllButLiveParked ==
    /\ CoreParked
    /\ TimerParked
    /\ CloneParked
    /\ NotifParked
    /\ ModeParked
    /\ EngineParked
    /\ OpsParked
    /\ LoadParked
    /\ IBParked

InitLB == InitLines(1) /\ IterParked /\ RunParked /\ ExtParked

NextLB ==
    \E l \in {1} :
        \/ Forward(l)
        \/ Backwards(l)
        \/ Rewind(l)
        \/ Advance(l)
        \/ Extend(l)
        \/ Home(l)
        \/ Reset(l)
        \/ QBufferOn(l)
        \/ MinBuffer(l)
        \/ SetItem(l)

SpecLB == InitLB /\ [][NextLB]_vars

(***************************************************************************)
(* SpecBind: two LineBuffers, each with its own cursor, joined by          *)
(* addbinding; values are stored with item assignment and with set().      *)
(***************************************************************************)
InitBind == InitLines(2) /\ IterParked /\ RunParked /\ ExtParked

NextBind ==
    \/ AddBinding(1, 2)
    \/ \E l \in Lines :
        \/ ForwardBy(l, {NAN}, {1}, MaxBindLen)
        \/ RewindBy(l, {1})
        \/ QBufferOn(l)
    \/ SetItem(1)
    \/ Set(1)

SpecBind == InitBind /\ [][NextBind]_vars

(***************************************************************************)
(* SpecIt: one iterator of either class, with or without its own           *)
(* nextstart, called once in every pass of the main loop, after the feed   *)
(* of its clock was asked for a bar.                                       *)
(***************************************************************************)
InitIt ==
    /\ InitLines(2)
    /\ \E kind \in Kinds, overridden \in BOOLEAN :
          iter = NewIter(kind, overridden)
    /\ RunParked
    /\ ExtParked

NextIt ==
    \/ ClockBar
    \/ ClockNoBar
    \/ IterNext

SpecIt == InitIt /\ [][NextIt]_vars

(***************************************************************************)
(* Spec: Cerebro._runnext over two feeds, each live or not and resampling  *)
(* or not, with cheat_on_open on or off.                                   *)
(***************************************************************************)
Init ==
    /\ lines = [i \in Feeds |-> NewLine(1)]
    /\ bindings = [l \in Lines |-> <<>>]
    /\ raised = "none"
    /\ refused = [l \in Lines |-> FALSE]
    /\ lastop = NoOp
    /\ IterParked
    /\ \E live \in [Feeds -> BOOLEAN], resampling \in [Feeds -> BOOLEAN] :
          feeds = [i \in Feeds |-> NewFeed(live[i], resampling[i])]
    /\ cheat_on_open \in BOOLEAN
    /\ pc = "storenotify"
    /\ drets = [i \in Feeds |-> RetFalse]
    /\ dts = [i \in Feeds |-> None]
    /\ dt0 = DT0Init
    /\ d0ret = RetTrue
    /\ lastret = FALSE
    /\ strat = 1
    /\ event_stop = FALSE
    /\ steps = <<>>
    /\ seen = [i \in Feeds |-> None]
    /\ ExtParked

Next ==
    \/ StoreNotify
    \/ DataNotify
    \/ NextBars
    \/ DataNotify2
    \/ CheatTimers
    \/ NextOpen
    \/ BrokerNotify
    \/ Timers
    \/ StratNext
    \/ Writers
    \/ ExitDataNotify
    \/ ExitStoreNotify

Spec == Init /\ [][Next]_vars

(***************************************************************************)
(* SpecFinite: the same loop over feeds that are not live (their sources   *)
(* hold finitely many bars and never answer None); the loop is the only    *)
(* thread and always takes its next step.                                  *)
(***************************************************************************)
InitFinite == Init /\ \A i \in Feeds : ~feeds[i].live

SpecFinite == InitFinite /\ [][Next]_vars /\ WF_vars(Next)

(***************************************************************************)
(* SpecStop: the loop of _runnext over two plain feeds, or the loop of     *)
(* _runonce over two preloaded feeds of up to MaxOnceBars bars, with       *)
(* runstop() called by a strategy or, at any point, by another thread.     *)
(***************************************************************************)
InitStop ==
    /\ bindings = [l \in Lines |-> <<>>]
    /\ raised = "none"
    /\ refused = [l \in Lines |-> FALSE]
    /\ lastop = NoOp
    /\ IterParked
    /\ feeds = [i \in Feeds |-> NewFeed(FALSE, FALSE)]
    /\ cheat_on_open \in BOOLEAN
    /\ \/ /\ pc = "storenotify"
          /\ lines = [i \in Feeds |-> NewLine(1)]
       \/ /\ pc = "once_peek"
          /\ \E first \in [Feeds -> 1..2], n \in [Feeds -> 0..MaxOnceBars] :
                lines = [i \in Feeds |-> Preloaded(first[i], n[i])]
    /\ drets = [i \in Feeds |-> RetFalse]
    /\ dts = [i \in Feeds |-> None]
    /\ dt0 = DT0Init
    /\ d0ret = RetTrue
    /\ lastret = FALSE
    /\ strat = 1
    /\ event_stop = FALSE
    /\ steps = <<>>
    /\ seen = [i \in Feeds |-> None]
    /\ ExtParked

NextStop ==
    \/ StoreNotify
    \/ DataNotify
    \/ NextBars
    \/ DataNotify2
    \/ CheatTimers
    \/ NextOpen
    \/ BrokerNotify
    \/ Timers
    \/ StratNext
    \/ Writers
    \/ ExitDataNotify
    \/ ExitStoreNotify
    \/ OncePeek
    \/ OnceCheatTimers
    \/ OncePostOpen
    \/ OnceBrokerNotify
    \/ OnceTimers
    \/ OncePost
    \/ OnceWriters
    \/ RunStop

SpecStop == InitStop /\ [][NextStop]_vars

(***************************************************************************)
(* SpecTimer: one Timer, any time of day, offset and repeat interval,      *)
(* with the day or a data feed's session as its session, checked at        *)
(* datetimes that never go back.                                           *)
(***************************************************************************)
InitTimer ==
    /\ AllButTimerParked
    /\ \E when \in 0..TIME_MAX, offset \in {0, 1}, repeat \in 0..MaxRepeat,
          isdata \in BOOLEAN, sessionend \in 0..TIME_MAX :
          /\ ~isdata => sessionend = TIME_MAX
          /\ timer = NewTimer(when, offset, repeat, isdata, sessionend)
    /\ TimerIdle

NextTimer == TimerCheck

SpecTimer == InitTimer /\ [][NextTimer]_vars

(***************************************************************************)
(* SpecWeek: a timer of the day with a sorted weekdays mask, with or       *)
(* without weekcarry, checked on any of the dates 0 (a Monday) to          *)
(* LastWeekDate at any times.                                              *)
(***************************************************************************)
RECURSIVE Sorted(_)
Sorted(S) ==
    IF S = {} THEN <<>>
    ELSE LET x == Min(S) IN <<x>> \o Sorted(S \ {x})

WeekdayLists ==
    {Sorted(S) : S \in {T \in SUBSET (1..WeekLen) :
                            Cardinality(T) \in 1..MaxWeekdays}}

InitWeek ==
    /\ AllButTimerParked
    /\ \E when \in 0..TIME_MAX, weekdays \in WeekdayLists,
          weekcarry \in BOOLEAN :
          timer = NewWeekTimer(when, weekdays, weekcarry)
    /\ TimerIdle

NextWeek == WeekCheck

SpecWeek == InitWeek /\ [][NextWeek]_vars

(***************************************************************************)
(* SpecMask: a timer of the day with a sorted weekdays mask, a sorted      *)
(* monthdays mask or both, without weekcarry and monthcarry, checked on    *)
(* any of the dates 0 (a Monday, the first of a month) to LastWeekDate.    *)
(***************************************************************************)
DayLists(last) ==
    {Sorted(S) : S \in {T \in SUBSET (1..last) :
                            Cardinality(T) \in 0..MaxMaskDays}}

InitMask ==
    /\ AllButTimerParked
    /\ \E weekdays \in DayLists(WeekLen), monthdays \in DayLists(MonthLen) :
          /\ weekdays # <<>> \/ monthdays # <<>>
          /\ timer = NewMaskTimer(0, weekdays, monthdays)
    /\ TimerIdle

NextMask == MaskCheck

SpecMask == InitMask /\ [][NextMask]_vars

(***************************************************************************)
(* SpecIB: an IBData feed after start(), with any parameters, the thread   *)
(* of the store putting up to MaxIbMsgs messages on its queues and load()  *)
(* calling _load at any time.                                              *)
(***************************************************************************)
InitIB ==
    /\ AllButIBParked
    /\ \E historical, backfill_start, backfill, latethrough, hasfrom, found,
          rc \in BOOLEAN :
          \E fromleft \in 0..1 :
             /\ ~hasfrom => fromleft = 0
             /\ ib = ib_start(NewIBData(historical, backfill_start, backfill,
                                        latethrough, hasfrom, fromleft),
                              found, rc)

NextIB == IBLoad \/ IBResume \/ IBPut

SpecIB == InitIB /\ [][NextIB]_vars

(***************************************************************************)
(* SpecLive: the simulated live feed with a history of up to MaxLiveBars   *)
(* bars, the thread of _run and the calls of next() by the main loop, with *)
(* and without a datamaster, interleaved in any way.                       *)
(***************************************************************************)
InitLive ==
    /\ AllButLiveParked
    /\ \E hist \in 0..MaxLiveBars : rt = NewLiveFeed(hist)

NextLive ==
    \/ LiveHistoryPut
    \/ LiveHistoryEnd
    \/ LiveRun
    \/ LiveStop
    \/ LiveNextCheck
    \/ LiveNextGet
    \/ LiveNextPutBack

SpecLive == InitLive /\ [][NextLive]_vars

(***************************************************************************)
(* SpecNotif: one feed, started at the beginning of every run, that is     *)
(* sent status notifications which Cerebro collects.                       *)
(***************************************************************************)
InitNotif ==
    /\ AllButNotifParked
    /\ NotifParked

NextNotif ==
    \/ FeedStart
    \/ PutNotification
    \/ GetNotifications

SpecNotif == InitNotif /\ [][NextNotif]_vars

(***************************************************************************)
(* SpecMode: a Cerebro with any parameters and feeds of any kind, run any  *)
(* number of times with any parameters.                                    *)
(***************************************************************************)
InitMode ==
    /\ AllButModeParked
    /\ \E p \in ParamSets, dolive \in BOOLEAN, doreplay \in BOOLEAN,
          replaying \in BOOLEAN :
          mode = NewCerebro(p, dolive, doreplay, replaying)

NextMode == RunDecide

SpecMode == InitMode /\ [][NextMode]_vars

(***************************************************************************)
(* SpecEngine: one call of runstrategies with NEngStrats strategy classes  *)
(* of any kind, with any outcome of the mode decision, over at most        *)
(* MaxTicks passes of the loop.                                            *)
(***************************************************************************)
InitEngine ==
    /\ AllButEngineParked
    /\ \E classes \in [1..NEngStrats -> StratClasses],
          dorunonce \in BOOLEAN, dopreload \in BOOLEAN :
          eng = NewEngine(classes, dorunonce, dopreload)
    /\ epc = "start"

NextEngine ==
    \/ EngineStart
    \/ Build
    \/ StartStrats
    \/ LoopTick
    \/ LoopEnd
    \/ StopStrats
    \/ Shutdown
    \/ Return

SpecEngine == InitEngine /\ [][NextEngine]_vars

(***************************************************************************)
(* SpecOps: one LineDelay, LinesOperation or LineOwnOperation over an      *)
(* operand of up to MaxOpBars bars, run bar by bar and run at once.        *)
(***************************************************************************)
OpsInputs ==
    UNION {[1..n -> OpVals] : n \in 0..MaxOpBars}

InitOps ==
    /\ AllButOpsParked
    /\ \E kind \in {"delay", "op", "ownop"}, ago \in -MaxAgo..MaxAgo,
          bline \in BOOLEAN, r \in BOOLEAN, mpa \in 1..MaxMinPeriod,
          avals \in OpsInputs :
          /\ kind # "delay" => ago = 0
          /\ kind # "op" => (~bline /\ ~r)
          /\ ops = NewOps(kind, ago, bline, r, 1, mpa, avals)

NextOps ==
    \/ OpsBar
    \/ OpsOnce

SpecOps == InitOps /\ [][NextOps]_vars

(***************************************************************************)
(* SpecLoad: one feed whose line is unbounded or bounded, over any source  *)
(* with increasing datetimes that answers None at most once, with any      *)
(* fromdate and todate and any filter, under repeated load() calls.        *)
(***************************************************************************)
RECURSIVE Increasing(_)
Increasing(q) ==
    IF Len(q) < 2 THEN TRUE
    ELSE Head(q) < Head(Tail(q)) /\ Increasing(Tail(q))

\* the datetimes of the bars in a list of answers
RECURSIVE BarsOf(_)
BarsOf(q) ==
    IF q = <<>> THEN <<>>
    ELSE IF Head(q) = RetNone THEN BarsOf(Tail(q))
    ELSE <<Head(q)>> \o BarsOf(Tail(q))

LdSources ==
    {q \in UNION {[1..n -> LdDts \cup {RetNone}] : n \in 0..(MaxDt + 1)} :
        /\ Increasing(BarsOf(q))
        /\ Len(q) - Len(BarsOf(q)) <= 1}

LdLines ==
    {NewLine(1)} \cup
    {qbuffer(NewLine(mp), x) : mp \in 1..MaxMinPeriod, x \in 0..1}

LdFilters ==
    {[kind |-> k, on |-> a, to |-> b] : k \in FilterKinds, a \in LdDts,
                                        b \in LdDts}

InitLoad ==
    /\ AllButLoadParked
    /\ \E line \in LdLines, src \in LdSources, fromdate \in NoFrom..MaxDt,
          todate \in 1..NoTo, filt \in LdFilters :
          /\ fromdate <= todate
          /\ filt.kind = "none" => (filt.on = 1 /\ filt.to = 1)
          /\ filt.kind = "remove" => filt.to = filt.on
          /\ filt.kind \in {"tostack", "tostash", "mutate"}
                 => filt.to \in {filt.on - 1, filt.on + 1}
          /\ ld = NewLoadFeed(line, src, fromdate, todate, filt)

NextLoad == LdLoad

SpecLoad == InitLoad /\ [][NextLoad]_vars

(***************************************************************************)
(* SpecClone: a source feed of up to MaxBars bars and its clone, in a      *)
(* preloaded run and in a bar-by-bar run.                                  *)
(***************************************************************************)
InitClone ==
    /\ AllButCloneParked
    /\ \E nbars \in 0..MaxBars : csource = NewSource(nbars)
    /\ cclone = NewClone
    /\ cpc \in {"source_preload", "source_next"}
    /\ cret = NoRets

NextClone ==
    \/ SourcePreload
    \/ ClonePreloadBegin
    \/ ClonePreloadLoad
    \/ ClonePreloadEnd
    \/ SourceNext
    \/ CloneNext
    \/ TickEnd

SpecClone == InitClone /\ [][NextClone]_vars

(***************************************************************************)
(* Properties of the LineBuffer.                                           *)
(***************************************************************************)

\* C1: right after an assignment buf[ago] = v (item assignment or set) that
\* returned, every line bound to buf with addbinding reads v at ago, whatever
\* its own cursor and mode.
C1_BindingHonoured ==
    (lastop.op = "setitem" /\ raised = "none") =>
        \A i \in 1..Len(bindings[lastop.line]) :
            LET b == lines[bindings[lastop.line][i]]
            IN  /\ PyIndexOK(b.array, b.idx + lastop.ago)
                /\ getitem(b, lastop.ago) = lastop.v

C1_Witness ==
    /\ lastop.op = "setitem"
    /\ raised = "none"
    /\ lastop.v # NAN
    /\ bindings[1] = <<2>>
    /\ lines[2].mode = QBuffer
    /\ lines[1].mode = UnBounded
    /\ lines[2].idx # lines[1].idx

\* C2 as stated: idx == lencount - 1 after any sequence of cursor
\* operations, in unbounded and in BOUNDED mode.
C2_IdxIsLencountMinusOne ==
    lines[1].idx = lines[1].lencount - 1

\* C2 amended: idx == lencount - 1 in unbounded mode, and in BOUNDED mode as
\* long as no set_idx call has been refused (the cursor has not been pinned
\* at lenmark).
C2_IdxIsLencountMinusOneUnlessRefused ==
    (lines[1].mode = UnBounded \/ ~refused[1]) =>
        lines[1].idx = lines[1].lencount - 1

C2_Witness ==
    /\ lines[1].mode = QBuffer
    /\ ~refused[1]
    /\ lines[1].lencount = 2
    /\ lines[1].idx = 1

(***************************************************************************)
(* Properties of the per-bar dispatch (SpecIt).                            *)
(***************************************************************************)

\* C3 as stated: in per-bar execution every _next of an iterator calls
\* prenext() while clock_len < min_period, nextstart() on the tick where
\* clock_len == min_period, and that exactly once in the run, and next() on
\* every tick after it.
C3_PrenextNextstartOnceThenNext ==
    (iter.ran /\ iter.phase = "data") =>
        LET clock_len == len(lines[1])
            minperiod == lines[2].minperiod
        IN  /\ (clock_len < minperiod) => (iter.calls = <<"prenext">>)
            /\ (clock_len = minperiod) => Called(iter.calls, "nextstart")
            /\ (clock_len > minperiod) => (iter.calls = <<"next">>)
            /\ iter.nextstarts <= 1

C5_Dt0IsMinOfProducers ==
    (d0ret = RetTrue /\ pc \in {"datanotify2", "raised"}) =>
        LET S == {dts[i] : i \in {j \in Feeds : drets[j] = RetTrue
                                               /\ j \notin rsonly}}
        IN  /\ pc # "raised"
            /\ (S = {}) => onlyresample
            /\ (S # {}) => dt0 = Min(S)

C7_Dt0NonDecreasing ==
    [][(dt0 # DT0Init) => (dt0' >= dt0)]_vars

StepRank(name) ==
    CASE name = "store_notify" -> 1
      [] name = "data_notify" -> 2
      [] name = "next_bars" -> 2
      [] name = "cheat_timers" -> 3
      [] name = "next_open" -> 4
      [] name = "broker_notify" -> 5
      [] name = "timers" -> 6
      [] name = "strat_next" -> 7
      [] name = "writers" -> 8

\* C8 as stated: within one pass of the loop the steps come in the order
\* store-notify, data-notify, cheat timers, next_open, broker-notify,
\* non-cheat timers, strategy next, writers: no step is followed by a step
\* that comes earlier in that order.
C8_StepsInOrder ==
    \A m, n \in 1..Len(steps) :
        (m < n) => (StepRank(steps[m]) <= StepRank(steps[n]))

\* the steps of this pass up to the broker are made
PastCheat == pc \in {"broker", "timers", "stratnext", "writers"}

\* C9 as stated: cheat-slot timers are checked and next_open is called in a
\* bar-producing pass if cheat_on_open is enabled, and neither of them runs
\* when it is not.
C9_CheatStepsIffCheatOnOpen ==
    /\ (cheat_on_open /\ PastCheat /\ BarTick(d0ret, lastret)) =>
          (Called(steps, "cheat_timers") /\ Called(steps, "next_open"))
    /\ (~cheat_on_open) =>
          (~Called(steps, "cheat_timers") /\ ~Called(steps, "next_open"))

\* C9 amended: the cheat-slot timers are checked in every bar-producing
\* pass, whether cheat_on_open is enabled or not, and in no other pass;
\* next_open is called in a bar-producing pass exactly if cheat_on_open is
\* enabled.
C9_CheatTimersAlwaysNextOpenIffCheatOnOpen ==
    /\ (PastCheat /\ BarTick(d0ret, lastret)) => Called(steps, "cheat_timers")
    /\ Called(steps, "cheat_timers") => BarTick(d0ret, lastret)
    /\ (PastCheat /\ BarTick(d0ret, lastret) /\ cheat_on_open) =>
          Called(steps, "next_open")
    /\ Called(steps, "next_open") =>
          (cheat_on_open /\ BarTick(d0ret, lastret))

C9_Witness ==
    /\ ~cheat_on_open
    /\ pc = "broker"
    /\ Called(steps, "cheat_timers")
    /\ ~Called(steps, "next_open")

\* C10: in a pass where no feed produces a bar and a live feed answers None
\* (its poll timed out), no line moves, the loop goes from the data
\* notifications straight to the broker notifications and from there back
\* to its top: no timer is checked and no strategy is called.
C10_PendingTickOnlyLoops ==
    [][/\ (pc = "nextbars" /\ d0ret' = RetNone) =>
            (lines' = lines /\ pc' = "datanotify2")
       /\ (pc = "datanotify2" /\ d0ret = RetNone) => (pc' = "broker")
       /\ (pc = "broker" /\ d0ret = RetNone) => (pc' = "storenotify")]_vars

\* the loop is back at its top after a pass in which a feed was pending
C10_Witness ==
    /\ d0ret = RetNone
    /\ pc = "storenotify"
    /\ steps = <<"store_notify", "data_notify", "next_bars", "data_notify",
                 "broker_notify">>

(***************************************************************************)
(* Termination of the main loop (SpecFinite).                              *)
(***************************************************************************)

\* C11 as stated: with feeds of finitely many bars the loop always
\* eventually reaches the pass in which every feed is exhausted and got its
\* _last() call, and leaves the loop after it (unless a strategy stops the
\* run with runstop()).
C11_ReachesExhaustedExit == <>(pc = "exit_datanotify" \/ event_stop)

\* C11, what holds: with feeds of finitely many bars the run of the loop
\* always eventually ends; it leaves the loop through its own exit only after
\* a pass in which every feed answered False and got its _last() call, and
\* otherwise ends by a runstop() of a strategy or by the ValueError of the
\* dt0 computation.
C11_Terminates ==
    /\ <>(pc \in {"done", "raised"})
    /\ [](pc = "exit_datanotify" =>
            \A i \in Feeds : drets[i] = RetFalse /\ feeds[i].eof)
    /\ []((pc = "done" /\ ~event_stop) => d0ret = RetFalse)

\* the loop has ended by itself after both feeds delivered bars
C11_Witness ==
    /\ pc = "done"
    /\ ~event_stop
    /\ \A i \in Feeds : feeds[i].eof /\ len(lines[i]) >= 1

(***************************************************************************)
(* The bar held back by a rewind (Spec).                                   *)
(***************************************************************************)

\* a bar of the line lies ahead of the cursor: it was loaded and rewound
HoldsBar(b) == buflen(b) > len(b)

\* the datetime of that bar (the slot after the cursor)
HeldBar(b) == b.array[b.idx + 2]

\* C12 as stated, for feeds that are not replayers: in a pass that produced
\* a bar, a feed whose newly loaded bar is later than dt0 is rewound one
\* bar, and data.datetime[0] as a strategy reads it in this pass is not the
\* datetime of that bar.
C12_OvershootNotSeen ==
    (pc = "stratnext" /\ d0ret = RetTrue) =>
        \A i \in Feeds :
            HoldsBar(lines[i]) =>
                /\ buflen(lines[i]) = len(lines[i]) + 1
                /\ HeldBar(lines[i]) > dt0
                /\ Sees(lines[i], None) # HeldBar(lines[i])

\* C12, what holds: the bar later than dt0 is one slot ahead of the cursor,
\* and a feed that delivered a bar before reads that earlier bar.
C12_OvershootNotSeenAfterFirstBar ==
    (pc = "stratnext" /\ d0ret = RetTrue) =>
        \A i \in Feeds :
            HoldsBar(lines[i]) =>
                /\ buflen(lines[i]) = len(lines[i]) + 1
                /\ HeldBar(lines[i]) > dt0
                /\ (len(lines[i]) >= 1) =>
                      Sees(lines[i], None) < HeldBar(lines[i])

C12_Witness ==
    /\ pc = "stratnext"
    /\ d0ret = RetTrue
    /\ HoldsBar(lines[2])
    /\ len(lines[2]) >= 1
    /\ dts[2] = HeldBar(lines[2])

(***************************************************************************)
(* Capacity and cursor of a BOUNDED line (SpecLB).                         *)
(***************************************************************************)

\* C13 as stated: after any sequence of forward, extend and set calls the
\* backing of a BOUNDED line holds at most its minimum period plus its extra
\* size slots.
C13_AtMostMinPeriodPlusExtra ==
    (lines[1].mode = QBuffer) =>
        Len(lines[1].array) <= lines[1].minperiod + lines[1].extrasize

\* C13 amended: the backing of a BOUNDED line holds at most maxlen plus
\* extrasize slots, where maxlen is the minimum period the line had when
\* qbuffer() was called or the larger size a later minbuffer() asked for.
C13_AtMostMaxlenPlusExtra ==
    (lines[1].mode = QBuffer) =>
        /\ Len(lines[1].array) <= lines[1].maxlen + lines[1].extrasize
        /\ lines[1].maxlen >= lines[1].minperiod

\* a line enlarged by minbuffer is full and has dropped its oldest slot
C13_Witness ==
    /\ lines[1].mode = QBuffer
    /\ lines[1].maxlen > lines[1].minperiod
    /\ Len(lines[1].array) = lines[1].maxlen + lines[1].extrasize
    /\ lines[1].lencount > Len(lines[1].array)

\* A step of line 1 that is the call named, recognised by its effect.
DidForward(v, size) ==
    lastop'.op = "forward" /\ raised = "none" /\ lines'[1] = forward(lines[1], v, size)

DidBackwards(size, force) ==
    /\ lastop'.op = "backwards"
    /\ raised = "none" /\ lines[1].lencount >= size
    /\ lines'[1] = backwards(lines[1], size, force).b

Bounded(b) == b.mode = QBuffer

Full(b) == Len(b.array) = b.maxlen + b.extrasize

Pinned(b) == Bounded(b) /\ b.idx >= b.lenmark

\* C14 as stated: once the backing of a BOUNDED line is filled, forward keeps
\* idx where it is and only rotates the values.
C14_ForwardOnFullKeepsIdx ==
    [][\A v \in Values, size \in Sizes :
        (Bounded(lines[1]) /\ Full(lines[1]) /\ DidForward(v, size)) =>
            lines'[1].idx = lines[1].idx]_vars

\* C14 amended: in a BOUNDED line an unforced forward leaves idx alone exactly
\* when idx has reached lenmark (whatever the backing holds), and then a
\* forward by one on a full backing drops the oldest value and appends the
\* new one; below lenmark forward moves idx by size; a forced set_idx (that
\* of backwards(force=True)) moves a pinned idx.
C14_ForwardPinnedAtLenmark ==
    [][\A v \in Values, size \in Sizes :
        /\ (Pinned(lines[1]) /\ DidForward(v, size)) =>
              /\ lines'[1].idx = lines[1].idx
              /\ lines'[1].lencount = lines[1].lencount + size
              /\ (Full(lines[1]) /\ size = 1) =>
                    lines'[1].array = Tail(lines[1].array) \o <<v>>
        /\ (Bounded(lines[1]) /\ ~Pinned(lines[1]) /\ DidForward(v, size)) =>
              lines'[1].idx = lines[1].idx + size
        /\ (Pinned(lines[1]) /\ DidBackwards(size, TRUE)) =>
              lines'[1].idx = lines[1].idx - size]_vars

\* a full line, pinned at lenmark, that has been moved forward since
C14_Witness ==
    /\ lastop.op = "forward"
    /\ Pinned(lines[1]) /\ Full(lines[1])
    /\ lines[1].idx = lines[1].lenmark
    /\ lines[1].lencount > Len(lines[1].array)
    /\ refused[1]

\* The cursor rests before the first slot or addresses a slot of the backing,
\* and is not beyond the length: what a caller of len() and [0] relies on.
Consistent(b) == b.idx <= Len(b.array) - 1 /\ b.idx <= b.lencount - 1

Popped(b, size) == SubSeq(b.array, 1, Len(b.array) - size)

\* C15 as stated: backwards pops size slots and rewinds idx and lencount by
\* size; a call refused in BOUNDED mode (no force, idx pinned) leaves idx,
\* lencount and the backing consistent with each other.
C15_BackwardsRewindsOrStaysConsistent ==
    [][\A size \in Sizes, force \in BOOLEAN :
        (DidBackwards(size, force) /\ Len(lines[1].array) >= size) =>
            IF Pinned(lines[1]) /\ ~force
            THEN Consistent(lines[1]) => Consistent(lines'[1])
            ELSE /\ lines'[1].idx = lines[1].idx - size
                 /\ lines'[1].lencount = lines[1].lencount - size
                 /\ lines'[1].array = Popped(lines[1], size)]_vars

\* C15, what the code does: backwards always pops size slots and takes size
\* from lencount; idx is rewound by size unless the line is BOUNDED, pinned
\* and the call unforced, and then idx alone stays.
C15_BackwardsRefusalKeepsOnlyIdx ==
    [][\A size \in Sizes, force \in BOOLEAN :
        (DidBackwards(size, force) /\ Len(lines[1].array) >= size) =>
            /\ lines'[1].lencount = lines[1].lencount - size
            /\ lines'[1].array = Popped(lines[1], size)
            /\ lines'[1].idx = IF Pinned(lines[1]) /\ ~force
                               THEN lines[1].idx
                               ELSE lines[1].idx - size]_vars

\* a BOUNDED line after a refused backwards: the cursor is past the backing
C15_Witness ==
    /\ lastop.op = "backwards"
    /\ Pinned(lines[1]) /\ refused[1]
    /\ lines[1].idx = lines[1].lenmark
    /\ Len(lines[1].array) = lines[1].idx
    /\ lines[1].lencount = lines[1].idx

DidHome == lastop'.op = "home" /\ raised = "none" /\ lines'[1] = home(lines[1])

DidReset == lastop'.op = "reset" /\ raised = "none" /\ lines'[1] = reset(lines[1])

DidRewind(size) ==
    /\ lastop'.op = "rewind"
    /\ raised = "none" /\ lines[1].lencount >= size
    /\ lines'[1] = rewind(lines[1], size)

DidAdvance(size) ==
    lastop'.op = "advance" /\ raised = "none" /\ lines'[1] = advance(lines[1], size)

\* C16 as stated: home() sets idx to -1 and lencount to 0 and leaves the
\* backing untouched, from any reachable state, unbounded or BOUNDED.
C16_HomeResetsCursor ==
    [][DidHome => /\ lines'[1].idx = -1
                  /\ lines'[1].lencount = 0
                  /\ lines'[1].array = lines[1].array]_vars

\* C16, what the code does: home() sets lencount to 0 and leaves the backing
\* untouched; idx becomes -1 unless the line is BOUNDED with idx at lenmark,
\* and then idx stays where it is.
C16_HomeKeepsPinnedIdx ==
    [][DidHome => /\ lines'[1].lencount = 0
                  /\ lines'[1].array = lines[1].array
                  /\ lines'[1].idx =
                        IF Pinned(lines[1]) THEN lines[1].idx ELSE -1]_vars

\* a full BOUNDED line sent home while pinned
C16_Witness ==
    /\ lastop.op = "home"
    /\ Pinned(lines[1]) /\ Full(lines[1]) /\ refused[1]
    /\ lines[1].idx = lines[1].lenmark
    /\ lines[1].lencount = 0

\* C17 as stated: rewind(size) takes size from idx and from lencount,
\* advance(size) adds size to both, neither touches the backing, in unbounded
\* and BOUNDED mode.
C17_RewindAdvanceMoveBoth ==
    [][\A size \in Sizes :
        /\ DidRewind(size) =>
              /\ lines'[1].idx = lines[1].idx - size
              /\ lines'[1].lencount = lines[1].lencount - size
              /\ lines'[1].array = lines[1].array
        /\ DidAdvance(size) =>
              /\ lines'[1].idx = lines[1].idx + size
              /\ lines'[1].lencount = lines[1].lencount + size
              /\ lines'[1].array = lines[1].array]_vars

RoundTrip(b, n) == advance(rewind(b, n), n)

\* C17, what the code does: rewind and advance move lencount by size and
\* leave the backing untouched; idx moves by size unless the line is BOUNDED
\* with idx at lenmark, and then idx stays.  From every reachable state
\* rewind(n) followed by advance(n) gives the state back whole.
C17_RewindAdvanceKeepPinnedIdx ==
    /\ [](\A n \in Sizes :
            (raised = "none" /\ lines[1].lencount >= n) =>
                RoundTrip(lines[1], n) = lines[1])
    /\ [][\A size \in Sizes :
            /\ DidRewind(size) =>
                  /\ lines'[1].lencount = lines[1].lencount - size
                  /\ lines'[1].array = lines[1].array
                  /\ lines'[1].idx = IF Pinned(lines[1]) THEN lines[1].idx
                                     ELSE lines[1].idx - size
            /\ DidAdvance(size) =>
                  /\ lines'[1].lencount = lines[1].lencount + size
                  /\ lines'[1].array = lines[1].array
                  /\ lines'[1].idx = IF Pinned(lines[1]) THEN lines[1].idx
                                     ELSE lines[1].idx + size]_vars

\* a full BOUNDED line rewound while pinned: bars are left, fewer than the
\* cursor says
C17_Witness ==
    /\ lastop.op = "rewind"
    /\ Pinned(lines[1]) /\ Full(lines[1]) /\ refused[1]
    /\ lines[1].idx = lines[1].lenmark
    /\ lines[1].lencount >= 1
    /\ lines[1].lencount <= lines[1].idx

\* C18 as stated: after reset() the backing is empty, lencount is 0 and idx
\* is -1, from any reachable state, unbounded or BOUNDED.
C18_ResetClearsAll ==
    [][DidReset => /\ lines'[1].array = <<>>
                   /\ lines'[1].lencount = 0
                   /\ lines'[1].idx = -1]_vars

\* C18, what the code does: reset() empties the backing and sets lencount
\* and extension to 0; idx becomes -1 unless the line is BOUNDED with idx at
\* lenmark, and then idx stays where it is.
C18_ResetKeepsPinnedIdx ==
    [][DidReset => /\ lines'[1].array = <<>>
                   /\ lines'[1].lencount = 0
                   /\ lines'[1].extension = 0
                   /\ lines'[1].idx =
                         IF Pinned(lines[1]) THEN lines[1].idx ELSE -1]_vars

\* a BOUNDED line of capacity two or more reset while pinned
C18_Witness ==
    /\ lastop.op = "reset"
    /\ Pinned(lines[1]) /\ refused[1]
    /\ lines[1].lenmark >= 1
    /\ lines[1].idx = lines[1].lenmark
    /\ lines[1].array = <<>> /\ lines[1].lencount = 0

(***************************************************************************)
(* Properties of the Timer (SpecTimer).                                    *)
(***************************************************************************)

\* C19: a timer without repeat returns True for at most one check call per
\* calendar date, the dt of the calls never going back.
C19_OncePerDay == (timer.repeat = 0) => dayhits <= 1

\* the timer has fired today and a later call of the same date was refused
C19_Witness ==
    /\ timer.repeat = 0
    /\ dayhits = 1 /\ ~tret
    /\ timer.lastcall = date(tnow)
    /\ tnow > timer.lastwhen

\* the most hits the claim allows under a session end, the first hit having
\* been made for the target first
MaxHits(eos, first, repeat) == ((eos - first) \div repeat) + 1

\* C20: a timer with repeat returns True at most
\* floor((session_end - first_fire) / repeat) + 1 times per session.
C20_HitsPerSession ==
    (timer.repeat > 0 /\ sesshits >= 1) =>
        sesshits <= MaxHits(sesseos, sessfirst, timer.repeat)

\* C20 for a timer whose session is the day (no data feed behind it): the
\* hits of a day are at most floor((session_end - first_fire) / repeat) + 1,
\* first_fire being the target the first hit of the day was made for.
C20_HitsPerDaySession ==
    (~timer.isdata /\ timer.repeat > 0 /\ sesshits >= 1) =>
        sesshits <= MaxHits(sesseos, sessfirst, timer.repeat)

\* a repeating timer has fired as often as the bound allows, more than once,
\* and the day is closed
C20_Witness ==
    /\ ~timer.isdata /\ timer.repeat > 0
    /\ sesshits >= 2
    /\ sesshits = MaxHits(sesseos, sessfirst, timer.repeat)
    /\ timer.lastcall = date(tnow)

(***************************************************************************)
(* Properties of the Timer with a weekdays mask (SpecWeek).                *)
(***************************************************************************)
time(dt) == dt % DayLen

\* C21 (scenario S5): a timer with weekdays = {WED} and weekcarry, checked
\* on Monday, Tuesday and Friday of one week at its time of day and on no
\* other day, has fired exactly once, on Friday.
C21_WednesdayCarriedToFriday ==
    (/\ timer.weekdays = <<WED>> /\ timer.weekcarry
     /\ tdays = {MON - 1, TUE - 1, FRI - 1}
     /\ time(tnow) >= timer.when) =>
        /\ thitdays = {FRI - 1}
        /\ dayhits = 1
        /\ timer.lastwhen = combine(FRI - 1, timer.when)

\* the Friday check of the scenario has been made, and a later one refused
C21_Witness ==
    /\ timer.weekdays = <<WED>> /\ timer.weekcarry
    /\ tdays = {MON - 1, TUE - 1, FRI - 1}
    /\ time(tnow) > timer.when
    /\ thitdays = {FRI - 1}
    /\ ~tret

(***************************************************************************)
(* Properties of DataClone (SpecClone).                                    *)
(***************************************************************************)
SourceHas(d, v) ==
    \E j \in 1..Len(csource.lines.dt.array) :
        /\ csource.lines.dt.array[j] = d
        /\ csource.lines.val.array[j] = v

\* C22: every bar the clone holds, in a preloaded run and in a bar-by-bar
\* run, has the value the source has at that bar's datetime.
C22_CloneEqualsSource ==
    /\ Len(cclone.lines.val.array) = Len(cclone.lines.dt.array)
    /\ \A k \in 1..Len(cclone.lines.dt.array) :
          SourceHas(cclone.lines.dt.array[k], cclone.lines.val.array[k])

\* a finished run in which the clone took two bars or more
C22_Witness ==
    /\ cpc = "done"
    /\ Len(cclone.lines.dt.array) >= 2
    /\ len(cclone.lines.dt) >= 2

ClonePhases ==
    {"clone_preload", "clone_preload_load", "clone_preload_end", "clone_next"}

\* C23 as stated: no operation of the clone loads a bar into the source or
\* moves the source's cursor or length.
C23_CloneLeavesSource ==
    [][(cpc \in ClonePhases) => csource' = csource]_vars

\* C23 amended: no operation of the clone calls the source's loader or
\* changes the source's backing; in a bar-by-bar run the source is left as
\* it is; the clone's preload advances the source's cursor over the bars the
\* source has preloaded and puts it back at home when it ends.
C23_CloneNeverLoadsSource ==
    [][/\ (cpc \in ClonePhases) =>
              /\ csource'.calls = csource.calls
              /\ csource'.loaded = csource.loaded
              /\ csource'.lines.dt.array = csource.lines.dt.array
              /\ csource'.lines.val.array = csource.lines.val.array
       /\ (cpc = "clone_next") => csource' = csource
       /\ (cpc = "clone_preload_load") =>
              /\ csource'.lines.dt.lencount = csource.lines.dt.lencount + 1
              /\ csource'.lines.dt.idx = csource.lines.dt.idx + 1
       /\ (cpc = "clone_preload_end") =>
              /\ csource'.lines.dt.idx = -1
              /\ csource'.lines.dt.lencount = 0]_vars

\* the clone is in its preload and has moved the source's cursor
C23_Witness ==
    /\ cpc = "clone_preload_load"
    /\ cclone.preloading
    /\ len(csource.lines.dt) >= 2
    /\ len(cclone.lines.dt) >= 2

(***************************************************************************)
(* Properties of the notification queue (SpecNotif).                       *)
(***************************************************************************)
\* C24 as stated: no two consecutive entries of the queue carry the same
\* status code.
C24_NoConsecutiveRepeats ==
    \A i \in 1..(Len(nfeed.notifs) - 1) : nfeed.notifs[i] # nfeed.notifs[i + 1]

\* C24 within one start of the feed: a notification that repeats
\* _laststatus is not queued, the last entry queued since start() carries
\* _laststatus, and no two consecutive entries queued since start() carry
\* the same status code.
C24_NoRepeatsSinceStart ==
    LET n == Len(nfeed.notifs) IN
    /\ nsince <= n
    /\ nsince > 0 => nfeed.notifs[n] = nfeed.laststatus
    /\ \A i \in (n - nsince + 1)..(n - 1) : nfeed.notifs[i] # nfeed.notifs[i + 1]
    /\ (ncall.op = "put" /\ ~ncall.queued) => ncall.status = nfeed.laststatus

\* a repeat of the last queued status was sent and suppressed
C24_Witness ==
    /\ ncall.op = "put"
    /\ ~ncall.queued
    /\ nsince = 2
    /\ Len(nfeed.notifs) = 2
    /\ ncall.status = nfeed.notifs[2]

(***************************************************************************)
(* Properties of runstop() (SpecStop).                                     *)
(***************************************************************************)
\* the steps of the two loops that are followed by 'if self._event_stop'
CheckpointSteps ==
    {"storenotify", "datanotify", "datanotify2", "nextopen", "broker",
     "stratnext", "exit_datanotify", "once_open", "once_broker", "once_post"}

LoopStep == pc' # pc \/ steps' # steps

\* C25: once runstop() has set the flag, by a strategy or by another thread
\* at any point of a tick, the flag stays set, the loop returns at the end of
\* the first step that is followed by a checkpoint (store notify, data
\* notify, broker notify, a strategy's call), and no step of the engine
\* runs after that.
C25_ExitsAtNextCheckpoint ==
    [][/\ event_stop => event_stop'
       /\ (LoopStep /\ event_stop' /\ pc \in CheckpointSteps) => pc' = "done"
       /\ pc = "done" => ~LoopStep]_vars

\* the flag was set by another thread while the feeds were asked for bars,
\* and the loop returned after the data notifications that follow
C25_Witness ==
    /\ pc = "done"
    /\ event_stop
    /\ steps = <<"store_notify", "data_notify", "next_bars", "data_notify">>

(***************************************************************************)
(* Properties of the mode decision (SpecMode).                             *)
(***************************************************************************)
NoTrigger ==
    /\ ~mode.dolive /\ ~mode.p.live
    /\ ~mode.doreplay
    /\ mode.exactbars = 0

\* C27 as stated: preload and runonce are on by default, and a live feed, a
\* replaying feed or exactbars switches both off for the run.
C27_TriggersDisableBoth ==
    mode.decided =>
        /\ (mode.p = DefaultParams /\ NoTrigger) =>
               (mode.dopreload /\ mode.dorunonce)
        /\ ~NoTrigger => (~mode.dopreload /\ ~Vectorized(mode))

\* C27 amended: on by default and left as the parameters say when nothing
\* triggers; a live feed switches both flags off; a replaying feed switches
\* preload off; exactbars switches runonce off, and preload only when it is
\* 1 or more; with any of the three the vectorized loop is not used.
C27_ModeDecision ==
    mode.decided =>
        /\ (mode.p = DefaultParams /\ NoTrigger) =>
               (mode.dopreload /\ mode.dorunonce)
        /\ NoTrigger => (/\ mode.dopreload = mode.p.preload
                         /\ mode.dorunonce = mode.p.runonce)
        /\ (mode.dolive \/ mode.p.live) =>
               (~mode.dopreload /\ ~mode.dorunonce)
        /\ mode.doreplay => ~mode.dopreload
        /\ mode.exactbars # 0 => ~mode.dorunonce
        /\ mode.exactbars >= 1 => ~mode.dopreload
        /\ (mode.exactbars < 0 /\ ~mode.doreplay
                /\ ~mode.dolive /\ ~mode.p.live) =>
               mode.dopreload = mode.p.preload
        /\ ~NoTrigger => ~Vectorized(mode)

\* a run with a negative exactbars that preloads its feeds
C27_Witness ==
    /\ mode.decided
    /\ mode.exactbars < 0
    /\ mode.dopreload
    /\ ~mode.dorunonce

(***************************************************************************)
(* Properties of runstrategies (SpecEngine).                               *)
(***************************************************************************)
\* C26: a run that runstop() ended still stops its strategies, the broker,
\* the feeds, the stores and the writers, and returns the strategies that
\* ran.
C26_StoppedRunShutsDown ==
    (epc = "returned" /\ eng.event_stop) =>
        /\ \A c \in Components : eng.comp[c] = "stopped"
        /\ \A j \in 1..Len(eng.runstrats) :
              eng.status[eng.runstrats[j]] = "stopped"
        /\ eng.result = eng.runstrats
        /\ eng.result # <<>>

\* a run of two strategies that the first one stopped in the second pass
C26_Witness ==
    /\ epc = "returned"
    /\ eng.event_stop
    /\ eng.ticks = 2
    /\ eng.result = <<1, 2>>
    /\ eng.calls[1] = 2
    /\ eng.calls[2] = 1

HasNextForce == \E o \in 1..Len(eng.objs) : eng.objs[o].nextforce

\* C28: once an indicator with _nextforce has registered, at whatever depth
\* below a strategy, _dorunonce is off and the loop taken is the per-bar
\* one.
C28_NextForceDisablesRunonce ==
    HasNextForce =>
        /\ ~eng.dorunonce
        /\ eng.loop # "runonce"
        /\ epc \in {"loop", "stopstrats"} => eng.loop = "runnext"

\* a run that was decided as vectorized and whose strategy has a next-force
\* indicator owned by another indicator: it ran the per-bar loop
C28_Witness ==
    /\ epc = "returned"
    /\ eng.decided.dorunonce /\ eng.decided.dopreload
    /\ eng.loop = "runnext"
    /\ eng.ticks >= 1
    /\ \E o \in 1..Len(eng.objs) :
          /\ eng.objs[o].nextforce
          /\ eng.objs[eng.objs[o].owner].ltype = IndType
    /\ \A i \in 1..Len(eng.classes) : ~eng.classes[i].skip

Kept(i) == ~eng.classes[i].skip

NonSkipped == SelectSeq([i \in 1..Len(eng.classes) |-> i], Kept)

\* C29: the strategies whose constructor raises StrategySkipError are left
\* out, and the others are built, started, run, stopped and returned, in
\* the order of their classes.
C29_SkippedOmittedRestRun ==
    /\ epc \notin {"start", "build"} => eng.runstrats = NonSkipped
    /\ epc = "build" =>
          \A i \in 1..Len(eng.classes) :
              (i < eng.k /\ Kept(i)) =>
                  \E j \in 1..Len(eng.runstrats) : eng.runstrats[j] = i
    /\ \A i \in 1..Len(eng.classes) : ~Kept(i) => eng.status[i] = "none"
    /\ epc = "returned" =>
          /\ eng.result = NonSkipped
          /\ \A i \in 1..Len(eng.classes) :
                Kept(i) => (eng.status[i] = "stopped" /\ eng.loop # "none")

\* the first class was skipped and the second ran and was returned
C29_Witness ==
    /\ epc = "returned"
    /\ eng.classes[1].skip
    /\ ~eng.classes[2].skip
    /\ eng.result = <<2>>
    /\ eng.calls[2] >= 1
    /\ eng.calls[1] = 0

(***************************************************************************)
(* Properties of the line operations and delays (SpecOps).                 *)
(***************************************************************************)
OpsDone == ops.oncedone /\ len(ops.a) = Len(ops.avals)

SameAtEveryIndex ==
    /\ ~ops.onerr /\ ~ops.nxerr
    /\ ops.nx.array = ops.on.array

\* C30 as stated: for a LineDelay, a LinesOperation and a LineOwnOperation
\* the per-bar run and the vectorized run over the same operands leave the
\* same value at every index.
C30_NextEqualsOnce == OpsDone => SameAtEveryIndex

\* C30 for delays that look back (ago <= 0) and for the operations, over
\* operands that have at least as many bars as the minimum period.
C30_NextEqualsOnceFromMinPeriod ==
    (/\ OpsDone
     /\ ops.ago <= 0
     /\ Len(ops.avals) >= ops_minperiod(ops)) => SameAtEveryIndex

\* a delay by one bar over three bars, run both ways, with values in it
C30_Witness ==
    /\ OpsDone
    /\ ops.kind = "delay"
    /\ ops.ago = -1
    /\ ops.mpa = 1
    /\ Len(ops.avals) = 3
    /\ ops.on.array = <<NAN, ops.avals[1], ops.avals[2]>>
    /\ ops.nx.array = ops.on.array

(***************************************************************************)
(* Properties of load() (SpecLoad).                                        *)
(***************************************************************************)
LdNoBar == ld.calls > 0 /\ ~ld.err /\ ld.ret # RetTrue

HasCurrent(b) == PyIndexOK(b.array, b.idx)

\* the bar at ago 0, or NAN where reading it raises IndexError
CurrentOf(b) == IF HasCurrent(b) THEN getitem(b, 0) ELSE NAN

SameCursor ==
    /\ len(ld.line) = len(ld.pre)
    /\ HasCurrent(ld.line) = HasCurrent(ld.pre)
    /\ CurrentOf(ld.line) = CurrentOf(ld.pre)

\* C31 as stated: when load() returns without a bar, the length of the
\* feed and its current bar are those before the call.
C31_NoBarLeavesCursor == LdNoBar => SameCursor

\* C31 for every line but the bounded line of one slot: when load()
\* returns without a bar, length and current bar are those before the call.
C31_NoBarLeavesCursorTwoSlots ==
    (LdNoBar /\ ~(ld.line.mode = QBuffer /\ ArrayCap(ld.line) = 1))
        => SameCursor

\* load() found nothing after a bar was delivered, on an unbounded line
\* and on a bounded line of two slots, and left that bar current
C31_Witness ==
    /\ LdNoBar
    /\ len(ld.line) >= 1
    /\ ld.line.mode = QBuffer
    /\ ArrayCap(ld.line) = 2
    /\ ld.line.idx < ld.pre.idx
    /\ CurrentOf(ld.line) \in LdDts
    /\ CurrentOf(ld.line) = CurrentOf(ld.pre)

LdBar == ld.calls > 0 /\ ~ld.err /\ ld.ret = RetTrue

InRange ==
    /\ HasCurrent(ld.line)
    /\ ld.fromdate <= getitem(ld.line, 0)
    /\ getitem(ld.line, 0) <= ld.todate

\* C32 as stated: a bar load() returns is never earlier than fromdate nor
\* later than todate, whatever way it came: source, barstash, barstack,
\* filters.
C32_ReturnedBarInRange == LdBar => InRange

\* C32 for the bars of the source and of barstash that no filter changed:
\* such a bar, when load() returns it, is within fromdate and todate; and a
\* load() that discarded a bar past todate returns False.
C32_UnfilteredBarInRange ==
    /\ (LdBar /\ ld.path \in {"source", "stash"} /\ ~ld.mutated) => InRange
    /\ (ld.calls > 0 /\ ~ld.err /\ ld.past) => ld.ret = RetFalse

\* load() discarded a bar earlier than fromdate, tried again and returned
\* the next bar of the source
C32_Witness ==
    /\ LdBar
    /\ ld.path = "source"
    /\ ld.dropped >= 1
    /\ ld.fromdate > NoFrom
    /\ InRange

(***************************************************************************)
(* Scenario S2 (SpecFinite): feed 1 is A, with the bars 1, 2, 3; feed 2   *)
(* is B, whose source has the single bar 1.  Neither is resampled.         *)
(***************************************************************************)
S2Feeds ==
    \A i \in Feeds : ~feeds[i].live /\ ~feeds[i].resampling
                     /\ ~feeds[i].replaying

\* both sources have given their bar 1 and nothing else
S2First ==
    /\ S2Feeds
    /\ feeds[1].last = 1 /\ feeds[2].last = 1
    /\ ~feeds[1].eof /\ ~feeds[2].eof

\* A has given the bars 1 .. k, k >= 2; B gave bar 1 and then ended
S2Later ==
    /\ S2Feeds
    /\ feeds[2].last = 1 /\ feeds[2].eof
    /\ feeds[1].last >= 2
    /\ lines[1].array = [j \in 1..feeds[1].last |-> j]

OneBar == [NewLine(1) EXCEPT !.array = <<1>>, !.idx = 0, !.lencount = 1]

\* C33: in scenario S2 both feeds deliver at dt0 = 1; in the passes for
\* the bars 2 and 3 of A only A advances: the cursor and the length of B
\* stay, B's bar at ago 0 stays its bar 1, B is never rewound, and the
\* strategies see A's new bar next to B's bar 1.
C33_ScenarioS2 ==
    /\ S2First =>
          /\ dt0 = 1 /\ dts = <<1, 1>>
          /\ lines[1] = OneBar /\ lines[2] = OneBar
          /\ \A i \in Feeds : seen[i] \in {None, 1}
    /\ S2Later =>
          /\ lines[2] = OneBar
          /\ getitem(lines[2], 0) = 1
          /\ lines[1].idx = feeds[1].last - 1
          /\ len(lines[1]) = feeds[1].last
          /\ dt0 = feeds[1].last
          /\ dts[1] = dt0 /\ dts[2] = None
          /\ seen[2] \in {None, 1}
          /\ seen[1] >= 2 => seen[2] = 1

\* the strategies have run for bar 3 of A and see bar 1 of B
C33_Witness ==
    /\ S2Later
    /\ feeds[1].last = 3
    /\ seen = <<3, 1>>
    /\ dt0 = 3
    /\ lines[2] = OneBar

(***************************************************************************)
(* Properties of the Timer with masks and without carry (SpecMask).        *)
(***************************************************************************)
RECURSIVE Elems(_)
Elems(q) == IF q = <<>> THEN {} ELSE {Head(q)} \cup Elems(Tail(q))

AllowedDate(d) ==
    /\ timer.weekdays # <<>> => isoweekday(d) \in Elems(timer.weekdays)
    /\ timer.monthdays # <<>> => monthday(d) \in Elems(timer.monthdays)

\* C34 as stated: a timer with weekdays or monthdays and without carry
\* fires only on dates whose weekday and day of the month are in its sets,
\* whatever dates it is checked on.
C34_FiresOnAllowedDatesOnly == \A d \in thitdays : AllowedDate(d)

\* every date from date 0 to the last one was checked
NoDateMissed == \A d \in tdays : \A e \in 0..d : e \in tdays

\* C34 for a timer with one of the two masks that is checked on every
\* date from the first of the week and month on: it fires only on dates
\* whose weekday (day of the month) is in the set.
C34_FiresOnAllowedDatesChecked ==
    (NoDateMissed /\ (timer.weekdays = <<>> \/ timer.monthdays = <<>>))
        => C34_FiresOnAllowedDatesOnly

\* a timer for Tuesdays and Thursdays has been checked on every date from
\* Monday to Friday and has fired on Tuesday and Thursday
C34_Witness ==
    /\ timer.weekdays = <<TUE, TUE + 2>>
    /\ timer.monthdays = <<>>
    /\ ~timer.weekcarry
    /\ tdays = 0..LastWeekDate
    /\ thitdays = {TUE - 1, TUE + 1}

(***************************************************************************)
(* The broker in a pass of the loop (Spec).                                *)
(***************************************************************************)
\* C35 as stated: the broker's next() is invoked in a tick only after that
\* tick's data delivery (or cheat slot), and it is not invoked on ticks in
\* which no feed produced a bar.
C35_BrokerOnlyOnBarTicks ==
    Called(steps, "broker_notify") => BarTick(d0ret, lastret)

\* the steps of a pass that come before the broker
BeforeBroker == {"next_bars", "cheat_timers", "next_open"}

\* C35 amended: the broker's next() is invoked once in every pass of the
\* loop that is not stopped before, after the feeds were asked for their
\* bars and after the cheat slot of a pass with a bar; that includes the
\* passes in which no feed produced a bar because a feed is pending.
C35_BrokerInEveryPass ==
    /\ \A n \in 1..Len(steps) :
          (steps[n] = "broker_notify") =>
              /\ \E m \in 1..(n - 1) : steps[m] = "next_bars"
              /\ \A m \in 1..Len(steps) : (steps[m] \in BeforeBroker) => (m < n)
              /\ \A m \in 1..Len(steps) : (steps[m] = "broker_notify") => (m = n)
    /\ (pc \in {"timers", "stratnext", "writers"}) =>
          Called(steps, "broker_notify")
    /\ (pc = "storenotify" /\ Called(steps, "next_bars")) =>
          Called(steps, "broker_notify")

\* the broker has run in a pass in which a feed was pending and none
\* delivered a bar, and the strategies are not called
C35_Witness ==
    /\ pc = "storenotify"
    /\ d0ret = RetNone
    /\ \A i \in Feeds : drets[i] # RetTrue
    /\ Called(steps, "broker_notify")
    /\ ~Called(steps, "strat_next")

(***************************************************************************)
(* Properties of IBData._load (SpecIB).                                    *)
(***************************************************************************)
\* C36 as stated: after an IB feed received a subscription rejection it
\* has notified NOTSUBSCRIBED and the run is over for it: every later call
\* of _load returns False, none waits and none delivers a bar.
C36_RejectionEndsFeed ==
    ib.rejected =>
        /\ ib.afterreject \subseteq {RetFalse}
        /\ ~ib.waiting

\* C36 for the call that reads the rejection: it returns False without a
\* bar and the status of the feed is NOTSUBSCRIBED; the feed stays in the
\* state it was in, live or downloading, and is not over.
C36_RejectionReturnsFalse ==
    (ib.event = "reject" /\ ~ib.waiting) =>
        /\ ib.ret = RetFalse
        /\ ib.laststatus = NOTSUBSCRIBED
        /\ ib.state \in {ST_LIVE, ST_HISTORBACK}

\* a live feed has read a rejection from its queue and answered False
C36_Witness ==
    /\ ib.event = "reject"
    /\ ib.state = ST_LIVE
    /\ ib.read = <<IbCode(NotSubscribed)>>
    /\ ib.callnotifs = <<NOTSUBSCRIBED>>
    /\ ib.ret = RetFalse

\* C37 as stated: with historical=True, once the download has ended _load
\* returns False and every later call returns False as well, without
\* waiting on a queue and without a bar.
C37_HistoricalStops ==
    ib.ended =>
        /\ ib.afterend \subseteq {RetFalse}
        /\ ~ib.waiting

\* C37 for the call that reads the end of the download: with
\* historical=True it returns False and the status of the feed is
\* DISCONNECTED; and a historical feed never becomes a live one.
C37_DownloadEndReturnsFalse ==
    /\ (ib.event = "end" /\ ~ib.waiting) =>
          /\ ib.historical
          /\ ib.ret = RetFalse
          /\ ib.laststatus = DISCONNECTED
          /\ ib.state = ST_HISTORBACK
    /\ ib.historical => ib.state \in {ST_FROM, ST_START, ST_HISTORBACK}

\* a historical feed has delivered a bar of the download and then read
\* its end
C37_Witness ==
    /\ ib.historical
    /\ ib.event = "end"
    /\ ib.last # None
    /\ ib.read = <<IbEnd>>
    /\ ib.callnotifs = <<DISCONNECTED>>
    /\ ib.ret = RetFalse

(***************************************************************************)
(* Every bar of a feed is delivered once (SpecFinite).                     *)
(***************************************************************************)
\* the run is over and no strategy and no other thread stopped it
RunOver == pc \in {"done", "raised"} /\ ~event_stop

\* every bar the feed has loaded lies at or before its cursor, and the
\* strategies were called with the last of them as the current bar
AllDelivered(i) ==
    /\ ~HoldsBar(lines[i])
    /\ feeds[i].last # None =>
          (len(lines[i]) >= 1 /\ seen[i] = feeds[i].last)

\* C38 as stated: in a run of the loop over feeds of finitely many bars
\* every bar a feed loads is delivered to the strategies as that feed's
\* current bar in exactly one pass: when the run is over each feed has
\* delivered all the bars it loaded, and a bar held back by a rewind is not
\* what the strategies read as the feed's current bar before its pass.
C38_EveryBarDeliveredOnce ==
    /\ RunOver => \A i \in Feeds : AllDelivered(i)
    /\ (pc = "stratnext") =>
          \A i \in Feeds :
              HoldsBar(lines[i]) => Sees(lines[i], None) # HeldBar(lines[i])

\* the bars of the line are those of before, in their slots, with at most
\* one new and later bar after them
KeepsBars(b, c) ==
    \/ c.array = b.array
    \/ /\ Len(c.array) = Len(b.array) + 1
       /\ SubSeq(c.array, 1, Len(b.array)) = b.array
       /\ \A n \in 1..Len(b.array) : b.array[n] < c.array[Len(c.array)]

\* C38 for the cursors of the feeds, whose lines are not bounded: in a
\* pass of the loop a feed keeps all its bars in their order and its
\* cursor stays or moves to the next bar, never back and never over a bar;
\* at most one bar lies ahead of the cursor, and a bar that was held back
\* is the bar the cursor moves to; the strategies called in a pass have
\* read the current bar of every feed that is at a bar; and a run that
\* ends because the feeds are exhausted has delivered every bar.
C38_CursorVisitsEveryBarOnce ==
    /\ [][\A i \in Feeds :
            /\ KeepsBars(lines[i], lines'[i])
            /\ len(lines'[i]) \in {len(lines[i]), len(lines[i]) + 1}
            /\ lines'[i].idx = len(lines'[i]) - 1
            /\ buflen(lines'[i]) - len(lines'[i]) \in {0, 1}
            /\ (HoldsBar(lines[i]) /\ len(lines'[i]) = len(lines[i]) + 1) =>
                  (getitem(lines'[i], 0) = HeldBar(lines[i]))
            /\ (len(lines'[i]) = len(lines[i]) + 1) =>
                  (pc' \in {"datanotify2", "raised"})]_vars
    /\ [](pc = "writers" =>
            \A i \in Feeds :
                (len(lines[i]) >= 1) => (seen[i] = getitem(lines[i], 0)))
    /\ []((pc = "done" /\ ~event_stop) => \A i \in Feeds : AllDelivered(i))

\* the run is over: the second feed loaded its only bar, 2, in the pass of
\* bar 1 of the first feed, was rewound, and delivered it in the next pass
C38_Witness ==
    /\ pc = "done" /\ ~event_stop
    /\ lines[1].array = <<1, 2>>
    /\ lines[2].array = <<2>>
    /\ seen = <<2, 2>>
    /\ \A i \in Feeds : AllDelivered(i)

(***************************************************************************)
(* The length of an iterator and of its clock (SpecIt).                    *)
(***************************************************************************)
\* _next has been called and the feed of the clock has not moved since
AfterNext == iter.ran /\ iter.phase = "data"

\* C39: after every _next call of a LineIterator or of a LineActions
\* object its length is the length of its clock: the call forwards the
\* object by exactly one slot if the clock has grown by a bar since the
\* call before, and not at all in a pass in which the length of the clock
\* stayed (its feed had no bar, or its bar was rewound, or the bar is
\* replayed).
C39_LengthFollowsClock ==
    /\ [](AfterNext => len(lines[2]) = len(lines[1]))
    /\ [][(iter.phase = "iter" /\ iter'.phase = "data") =>
            LET grown == IF len(lines[1]) > len(lines[2]) THEN 1 ELSE 0
            IN  /\ len(lines'[2]) = len(lines[2]) + grown
                /\ Len(lines'[2].array) = Len(lines[2].array) + grown
                /\ lines'[1] = lines[1]]_vars

\* the clock stood at the minimum period of the object for two calls of
\* _next and went on; the object has the length of the clock
C39_Witness ==
    /\ AfterNext
    /\ iter.nextstarts = 2
    /\ len(lines[1]) > lines[2].minperiod
    /\ len(lines[2]) = len(lines[1])

(***************************************************************************)
(* Properties of the simulated live feed (SpecLive).                       *)
(***************************************************************************)
\* how often a bar is in a list
Times(q, dt) == Cardinality({n \in 1..Len(q) : q[n] = dt})

InHand == IF rt.bar = None THEN <<>> ELSE <<rt.bar>>

\* the bars delivered, the bar next() holds and the bars of the queue are
\* the bars _run has put, each as often as it was put
NoBarLost ==
    \A dt \in 1..MaxLiveBars :
        Times(rt.delivered \o InHand \o rt.data_q, dt) = Times(rt.enq, dt)

\* C40 as stated: under any interleaving of the thread of _run and the
\* main loop the bars next() delivers come in the order they were put on
\* the queue, with strictly increasing datetimes, and none is lost, also
\* when next() puts a bar back on the queue.
C40_DeliveredInEnqueueOrder ==
    /\ rt.delivered = SubSeq(rt.enq, 1, Len(rt.delivered))
    /\ Increasing(rt.delivered)
    /\ NoBarLost

\* C40, what holds: no bar is lost and none is doubled, whatever the
\* interleaving: the bars delivered, the bar next() holds and the bars of
\* the queue are the bars _run has put, each once, and _run puts them with
\* strictly increasing datetimes; as long as next() has put no bar back
\* they are delivered in that order.
C40_NoBarLostOrderedWithoutPutBack ==
    /\ NoBarLost
    /\ Increasing(rt.enq)
    /\ (~rt.putback) => (rt.delivered \o InHand \o rt.data_q = rt.enq)

\* next() has put bar 2 back while bar 3 came, and has delivered both
C40_Witness ==
    /\ rt.putback
    /\ rt.enq = <<1, 2, 3>>
    /\ rt.delivered = <<1, 3, 2>>
    /\ rt.data_q = <<>>

====
